---- MODULE Spec2Model ----
(***************************************************************************)
(* Model of the scheduler's interaction engine (Scheduler component and   *)
(* the App that owns the task list): the three pointer gestures           *)
(* (drag-move, resize, create-by-drag), the drop-zone resolver, the       *)
(* settle timer, and the mutation callbacks handed to the parent.         *)
(*                                                                         *)
(* Instants are whole minutes since 00:00 of model day 0; one step of the *)
(* model is one event handler run to completion, React state updates of   *)
(* the handler included (the next handler sees the re-rendered state).    *)
(* A handler is a function from the component state (a record of all the  *)
(* hooks' values) to the next state, so that a handler calling another    *)
(* (startResize -> resetDragState -> stopCreateSelection) is composition. *)
(***************************************************************************)
EXTENDS Integers, Sequences, FiniteSets, TLC

\* ------------------------------------------------------------------ bounds
\* number of model days (columns of the grid, cells of the month)
NumDays == 2
\* cap on the number of committed gestures (move, resize, create) in one run
MaxMutations == 1
\* cap on the number of deletions in one run
MaxDeletes == 1
\* cap on the number of resizes started in a row over a resize in progress
MaxResizeChain == 1
\* width in pixels of one day column (and side of one month cell)
ColWidth == 100

\* ------------------------------------------------------- program constants
MIN_DAY_MINUTES == 0
MAX_DAY_MINUTES == 1440
SLOT_HEIGHT == 30
BlockSizes == {15, 30, 60}

Null == [null |-> TRUE]
NoId == 0

VARIABLES
  blockMinutes, features,
  tasks, internalAppointments, currentView,
  draggingId, dragPreview, dragOverlayWidth, dragOverlayHeight, dragPointer,
  hoveredEntryId, hoverSlot, createDraft, settleEntryId, resizeDraft,
  dragAnchorSlotRef, dragAnchorPxRef, dragStartPointerRef,
  settleTimeoutRef, settleRafRef,
  resizeSessionRef, resizeDraftRef, resizeListenersRef,
  createDraftRef, createListenersRef,
  bodyCursor, windowListeners, animationFrames, timeouts,
  dndActive, resizePointerY, resizeChain, emitted, mutations, deletes,
  mounted, nextHandle,
  configStartTime, configEndTime, resolvedTimeline,
  layoutEntries, dayLayout, childrenTimeSpent, draftUpdates, lastMutatedId

configVars == <<blockMinutes, features, configStartTime, configEndTime,
                resolvedTimeline, layoutEntries, dayLayout, childrenTimeSpent>>
\* everything the Scheduler and its parent keep besides the configuration
componentVars == <<tasks, internalAppointments, currentView,
  draggingId, dragPreview, dragOverlayWidth, dragOverlayHeight, dragPointer,
  hoveredEntryId, hoverSlot, createDraft, settleEntryId, resizeDraft,
  dragAnchorSlotRef, dragAnchorPxRef, dragStartPointerRef,
  settleTimeoutRef, settleRafRef,
  resizeSessionRef, resizeDraftRef, resizeListenersRef,
  createDraftRef, createListenersRef,
  bodyCursor, windowListeners, animationFrames, timeouts,
  dndActive, resizePointerY, resizeChain, emitted, mutations, deletes,
  mounted, nextHandle, draftUpdates, lastMutatedId>>
vars == <<blockMinutes, features,
  tasks, internalAppointments, currentView,
  draggingId, dragPreview, dragOverlayWidth, dragOverlayHeight, dragPointer,
  hoveredEntryId, hoverSlot, createDraft, settleEntryId, resizeDraft,
  dragAnchorSlotRef, dragAnchorPxRef, dragStartPointerRef,
  settleTimeoutRef, settleRafRef,
  resizeSessionRef, resizeDraftRef, resizeListenersRef,
  createDraftRef, createListenersRef,
  bodyCursor, windowListeners, animationFrames, timeouts,
  dndActive, resizePointerY, resizeChain, emitted, mutations, deletes,
  mounted, nextHandle,
  configStartTime, configEndTime, resolvedTimeline,
  layoutEntries, dayLayout, childrenTimeSpent, draftUpdates, lastMutatedId>>

\* ------------------------------------------------------------ arithmetic
Max(a, b) == IF a >= b THEN a ELSE b
Min(a, b) == IF a <= b THEN a ELSE b
\* Math.round(n / d) for d > 0: halves round towards +infinity
RoundDiv(n, d) == (2 * n + d) \div (2 * d)
\* Math.floor(n / d) and Math.ceil(n / d) for d > 0
FloorDiv(n, d) == n \div d
CeilDiv(n, d) == -((-n) \div d)

clamp(value, min, max) == Max(min, Min(max, value))

startOfDay(date) == date - (date % 1440)
minutesOfDay(date) == date % 1440
dayWithMinutes(day, totalMinutes) == startOfDay(day) + totalMinutes
sameDay(a, b) == startOfDay(a) = startOfDay(b)
durationMinutes(entry, minBlockMinutes) ==
  Max(minBlockMinutes, entry.endDate - entry.startDate)

\* model day d is the calendar day 2026-02-(9+d); month is 0-based in keys
dayDate(d) == d * 1440
dayKey(date) == <<2026, 1, 9 + (date \div 1440)>>
\* parseDayKey gives null (NoDate) for a key that does not have three parts
NoDate == -1
parseDayKey(value) ==
  IF Len(value) = 3 THEN (value[3] - 9) * 1440 ELSE NoDate

\* Math.round((minutes / 60) * 100) / 100, kept in hundredths of an hour
HoursOf(minutes) == RoundDiv(minutes * 100, 60)

\* ------------------------------------------------------ timeline (config)
SLOT_MINUTES == blockMinutes
SLOT_COUNT == Max(1, FloorDiv(MAX_DAY_MINUTES - MIN_DAY_MINUTES, blockMinutes))
START_MINUTES == MIN_DAY_MINUTES
DAY_START_MINUTES == MIN_DAY_MINUTES
DAY_END_MINUTES == MIN_DAY_MINUTES + SLOT_COUNT * blockMinutes
DEFAULT_TASK_MINUTES == Max(30, blockMinutes)
DEFAULT_TASK_SLOTS == Max(1, RoundDiv(DEFAULT_TASK_MINUTES, blockMinutes))
maxNewTaskStartSlot == Max(0, SLOT_COUNT - DEFAULT_TASK_SLOTS)

canDrag == ~features.readOnly /\ features.drag
\* fault variant: the resize flag alone decides, readOnly is not consulted
canResizeIgnoresReadOnly == features.resize
canResize == ~features.readOnly /\ features.resize
canCreate == ~features.readOnly /\ features.create
canDelete == ~features.readOnly /\ features.delete

\* ----------------------------------------------------- timeline (useMemo)
DEFAULT_WORK_START_MINUTES == 9 * 60 + 30
DEFAULT_WORK_END_MINUTES == 19 * 60 + 30

\* a Date of the config prop: left undefined, an invalid Date, or a calendar
\* day (counted from 2026-01-01) with a minute of that day
UndefinedTime == [kind |-> "undefined", day |-> 0, minutes |-> 0]
InvalidTime == [kind |-> "invalid", day |-> 0, minutes |-> 0]
TimeOf(day, minutes) == [kind |-> "date", day |-> day, minutes |-> minutes]

\* null, NaN (the reference day is an invalid Date) or a number of minutes
toOffsetMinutes(value, referenceDay) ==
  IF value.kind # "date" THEN [kind |-> "null", n |-> 0]
  ELSE IF referenceDay.kind # "date" THEN [kind |-> "NaN", n |-> 0]
  ELSE [kind |-> "number",
        n |-> (value.day - referenceDay.day) * 1440 + value.minutes]

\* the range checks and the repairs of an empty or too short window; every
\* comparison with a NaN end is false and the end stays NaN
validatedWindow(startTime, endTime, parsedStart, parsedEnd) ==
  LET endNaN == parsedEnd.kind = "NaN"
      w1 == IF startTime.kind # "undefined" /\ parsedStart.kind = "null"
            THEN <<"Invalid startTime">> ELSE << >>
      w2 == IF endTime.kind # "undefined" /\ parsedEnd.kind = "null"
            THEN <<"Invalid endTime">> ELSE << >>
      w3 == IF /\ parsedStart.kind = "number"
               /\ (parsedStart.n < MIN_DAY_MINUTES \/ parsedStart.n > MAX_DAY_MINUTES)
            THEN <<"startTime out of range">> ELSE << >>
      w4 == IF /\ parsedEnd.kind = "number"
               /\ (parsedEnd.n < MIN_DAY_MINUTES \/ parsedEnd.n > MAX_DAY_MINUTES)
            THEN <<"endTime out of range">> ELSE << >>
      start0 == clamp(IF parsedStart.kind = "number" THEN parsedStart.n
                      ELSE DEFAULT_WORK_START_MINUTES,
                      MIN_DAY_MINUTES, MAX_DAY_MINUTES)
      end0 == clamp(IF parsedEnd.kind = "number" THEN parsedEnd.n
                    ELSE DEFAULT_WORK_END_MINUTES,
                    MIN_DAY_MINUTES, MAX_DAY_MINUTES)
      c1 == ~endNaN /\ end0 <= start0
      w5 == IF c1 THEN <<"End time must be later than start time">> ELSE << >>
      end1 == IF c1 THEN Min(MAX_DAY_MINUTES, start0 + 15) ELSE end0
      c2 == ~endNaN /\ end1 - start0 < 15
      w6 == IF c2 THEN <<"At least 15 minutes apart">> ELSE << >>
      end2 == IF c2 THEN Min(MAX_DAY_MINUTES, start0 + 15) ELSE end1
      c3 == ~endNaN /\ end2 <= start0
  IN [workStartMinutes |-> IF c3 THEN Max(MIN_DAY_MINUTES, MAX_DAY_MINUTES - 15)
                           ELSE start0,
      workEndMinutes |-> IF c3 THEN MAX_DAY_MINUTES ELSE end2,
      workEndIsNaN |-> endNaN,
      warnings |-> w1 \o w2 \o w3 \o w4 \o w5 \o w6]

\* fault variant: the start is not snapped to a block boundary
snappedStartUnsnapped(workStartMinutes, block) == workStartMinutes

snappedStart(workStartMinutes, block) == FloorDiv(workStartMinutes, block) * block

\* fault variant: the end always moves to the next block boundary
snappedEndNextBoundary(workEndMinutes, block) ==
  (FloorDiv(workEndMinutes, block) + 1) * block

snappedEnd(workEndMinutes, block) == CeilDiv(workEndMinutes, block) * block

\* fault variant: snapping is not reported
snapWarningsSilent(window, block) == << >>

\* NaN !== NaN, so a NaN end always counts as snapped
snapWarnings(window, block) ==
  IF \/ snappedStart(window.workStartMinutes, block) # window.workStartMinutes
     \/ window.workEndIsNaN
     \/ snappedEnd(window.workEndMinutes, block) # window.workEndMinutes
  THEN <<"Times are snapped">> ELSE << >>

\* config.startTime ?? config.endTime ?? new Date(2026, 0, 1)
referenceDay(startTime, endTime) ==
  IF startTime.kind # "undefined" THEN startTime
  ELSE IF endTime.kind # "undefined" THEN endTime
  ELSE TimeOf(0, 0)

\* the memoized timeline of a config prop (startTime, endTime, blockMinutes)
resolvedTimelineOf(startTime, endTime, block) ==
  LET parsedStart == toOffsetMinutes(startTime, referenceDay(startTime, endTime))
      parsedEnd == toOffsetMinutes(endTime, referenceDay(startTime, endTime))
      window == validatedWindow(startTime, endTime, parsedStart, parsedEnd)
      workStartMinutes == clamp(snappedStart(window.workStartMinutes, block),
                                MIN_DAY_MINUTES, MAX_DAY_MINUTES - block)
      workEndMinutes == clamp(snappedEnd(window.workEndMinutes, block),
                              workStartMinutes + block, MAX_DAY_MINUTES)
      slotCount == Max(1, FloorDiv(MAX_DAY_MINUTES - MIN_DAY_MINUTES, block))
  IN [startMinutes |-> MIN_DAY_MINUTES,
      endMinutes |-> MIN_DAY_MINUTES + slotCount * block,
      workStartMinutes |-> workStartMinutes,
      workEndMinutes |-> IF window.workEndIsNaN THEN 0 ELSE workEndMinutes,
      workEndIsNaN |-> window.workEndIsNaN,
      blockMinutes |-> block,
      slotCount |-> slotCount,
      warnings |-> window.warnings \o snapWarnings(window, block)]

\* ------------------------------------------------------------ appointments
\* a TaskItem child is a record of props; timeSpent is an optional prop
normalizeTaskItem(item, minBlockMinutes) ==
  LET endDate == IF item.endDate <= item.startDate
                 THEN item.startDate + minBlockMinutes ELSE item.endDate
      minutes == Max(minBlockMinutes, endDate - item.startDate)
  IN [id |-> item.id, startDate |-> item.startDate, endDate |-> endDate,
      timeSpent |-> IF "timeSpent" \in DOMAIN item
                    THEN item.timeSpent ELSE HoursOf(minutes)]

extractTaskItems(children, minBlockMinutes) ==
  [i \in 1..Len(children) |-> normalizeTaskItem(children[i], minBlockMinutes)]

FindById(list, id) ==
  IF \E i \in 1..Len(list) : list[i].id = id
  THEN list[CHOOSE i \in 1..Len(list) :
              list[i].id = id /\ \A j \in 1..(i - 1) : list[j].id # id]
  ELSE Null

\* ---------------------------------------------------------- component view
\* what one render of the Scheduler derives from its props and state
\* the parent renders one TaskItem per task. App passes no timeSpent prop;
\* a parent that passes every field of its task records (childrenTimeSpent)
\* renders the same children with the timeSpent prop
TaskItemsOf(taskList) ==
  [i \in 1..Len(taskList) |->
     IF childrenTimeSpent
     THEN [id |-> taskList[i].id, startDate |-> taskList[i].startDate,
           endDate |-> taskList[i].endDate, timeSpent |-> taskList[i].timeSpent]
     ELSE [id |-> taskList[i].id, startDate |-> taskList[i].startDate,
           endDate |-> taskList[i].endDate]]

childAppointmentsOf(s) == extractTaskItems(TaskItemsOf(s.tasks), blockMinutes)
hasTaskChildrenOf(s) == Len(s.tasks) > 0
\* App always passes onTasksChange, so controlled = hasTaskChildren
controlledOf(s) == hasTaskChildrenOf(s)
appointmentsOf(s) ==
  IF controlledOf(s) THEN childAppointmentsOf(s) ELSE s.internalAppointments

\* the values of a render that the handlers created in it close over
RenderClosure(s) ==
  [controlled |-> controlledOf(s), childAppointments |-> childAppointmentsOf(s)]

\* --------------------------------------------------------- parent (App.tsx)
setTasks(s, next) == [s EXCEPT !.tasks = next]

handleTaskCreate(s, draft) ==
  LET prev == s.tasks
      ids == {prev[i].id : i \in 1..Len(prev)} \cup {0}
      nextId == (CHOOSE m \in ids : \A k \in ids : k <= m) + 1
  IN setTasks(s, Append(prev, [id |-> nextId, startDate |-> draft.startDate,
                               endDate |-> draft.endDate,
                               timeSpent |-> draft.timeSpent]))

handleTaskDelete(s, task) ==
  LET Keep(item) == item.id # task.id
  IN setTasks(s, SelectSeq(s.tasks, Keep))

\* -------------------------------------------------------- mutation boundary
\* each callback invocation is recorded in emitted (cleared at every event)
onTasksChange(s, op, id, next) ==
  setTasks([s EXCEPT !.emitted =
              Append(@, [cb |-> "onTasksChange", op |-> op, id |-> id,
                         next |-> next])], next)

onTaskCreate(s, draft, context) ==
  handleTaskCreate([s EXCEPT !.emitted =
              Append(@, [cb |-> "onTaskCreate", op |-> "create", id |-> NoId,
                         next |-> [draft |-> draft, context |-> context]])],
                   draft)

onTaskDelete(s, source) ==
  handleTaskDelete([s EXCEPT !.emitted =
              Append(@, [cb |-> "onTaskDelete", op |-> "delete",
                         id |-> source.id, next |-> source])], source)

\* the updater functions that moveAppointment and resizeAppointment pass to
\* updateAppointments, as records [op, id, nextStart, nextEnd]
movedItem(item, u) ==
  LET duration == durationMinutes(item, SLOT_MINUTES)
  IN [item EXCEPT !.startDate = u.nextStart,
                  !.endDate = u.nextStart + duration,
                  !.timeSpent = HoursOf(duration)]

resizedItem(item, u) ==
  LET minutes == Max(SLOT_MINUTES, u.nextEnd - u.nextStart)
  IN [item EXCEPT !.startDate = u.nextStart,
                  !.endDate = u.nextEnd,
                  !.timeSpent = HoursOf(minutes)]

applyUpdater(u, prev) ==
  [i \in 1..Len(prev) |->
     IF prev[i].id # u.id THEN prev[i]
     ELSE IF u.op = "move" THEN movedItem(prev[i], u)
     ELSE resizedItem(prev[i], u)]

updateAppointments(s, closure, u) ==
  IF closure.controlled
  THEN onTasksChange(s, u.op, u.id, applyUpdater(u, closure.childAppointments))
  ELSE LET next == applyUpdater(u, s.internalAppointments)
       IN onTasksChange([s EXCEPT !.internalAppointments = next], u.op, u.id, next)

\* ------------------------------------------------------------ settle timer
\* a pending animation frame or timeout is named by the entry id it is for
\* fault variant: the pending timeout of the previous mutation is kept
queueSettleAnimationKeepsTimeout(s, id) ==
  LET s1 == IF s.settleRafRef # NoId
            THEN [s EXCEPT !.animationFrames =
                             {f \in @ : f.handle # s.settleRafRef}]
            ELSE s
  IN [s1 EXCEPT !.settleEntryId = NoId,
                !.settleRafRef = s.nextHandle,
                !.animationFrames = @ \cup {[handle |-> s.nextHandle, id |-> id]},
                !.nextHandle = @ + 1]

\* the browser numbers the frame requests and timeouts it hands out
\* (nextHandle); a pending frame keeps the id its callback closes over
queueSettleAnimation(s, id) ==
  LET s1 == IF s.settleRafRef # NoId
            THEN [s EXCEPT !.animationFrames =
                             {f \in @ : f.handle # s.settleRafRef}]
            ELSE s
      s2 == IF s1.settleTimeoutRef # NoId
            THEN [s1 EXCEPT !.timeouts = @ \ {s1.settleTimeoutRef}] ELSE s1
  IN [s2 EXCEPT !.settleEntryId = NoId,
                !.settleRafRef = s.nextHandle,
                !.animationFrames = @ \cup {[handle |-> s.nextHandle, id |-> id]},
                !.nextHandle = @ + 1]

settleFrameCallback(s, id) ==
  [s EXCEPT !.settleRafRef = NoId,
            !.settleEntryId = id,
            !.settleTimeoutRef = s.nextHandle,
            !.timeouts = @ \cup {s.nextHandle},
            !.nextHandle = @ + 1]

\* fault variant: the timeout leaves the highlight on
settleTimeoutCallbackKeepsHighlight(s) == [s EXCEPT !.settleTimeoutRef = NoId]

settleTimeoutCallback(s) ==
  [s EXCEPT !.settleEntryId = NoId, !.settleTimeoutRef = NoId]

\* ---------------------------------------------------------------- commits
moveAppointment(s, closure, id, nextStart) ==
  IF ~canDrag THEN s
  ELSE queueSettleAnimation(
         updateAppointments(s, closure,
           [op |-> "move", id |-> id, nextStart |-> nextStart,
            nextEnd |-> nextStart]), id)

resizeAppointment(s, closure, id, nextStart, nextEnd) ==
  IF ~canResize THEN s
  ELSE queueSettleAnimation(
         updateAppointments(s, closure,
           [op |-> "resize", id |-> id, nextStart |-> nextStart,
            nextEnd |-> nextEnd]), id)

\* ------------------------------------------------- listeners and teardown
detachResizeListeners(s) ==
  [s EXCEPT !.windowListeners =
              IF s.resizeListenersRef # Null
              THEN @ \ {s.resizeListenersRef} ELSE @,
            !.resizeListenersRef = Null]

detachCreateListeners(s) ==
  [s EXCEPT !.windowListeners =
              IF s.createListenersRef # Null
              THEN @ \ {s.createListenersRef} ELSE @,
            !.createListenersRef = Null]

setGlobalResizeCursor(s, enabled) == [s EXCEPT !.bodyCursor = enabled]

\* fault variant: the cleanup forgets the resize listeners
unmountKeepsResizeListeners(s) ==
  LET s1 == detachCreateListeners(setGlobalResizeCursor(s, FALSE))
      s2 == IF s1.settleRafRef # NoId
            THEN [s1 EXCEPT !.animationFrames =
                              {f \in @ : f.handle # s1.settleRafRef}]
            ELSE s1
  IN IF s2.settleTimeoutRef # NoId
     THEN [s2 EXCEPT !.timeouts = @ \ {s2.settleTimeoutRef}] ELSE s2

\* the cleanup the component runs when it unmounts
unmount(s) ==
  LET s1 == detachCreateListeners(
              detachResizeListeners(setGlobalResizeCursor(s, FALSE)))
      s2 == IF s1.settleRafRef # NoId
            THEN [s1 EXCEPT !.animationFrames =
                              {f \in @ : f.handle # s1.settleRafRef}]
            ELSE s1
  IN IF s2.settleTimeoutRef # NoId
     THEN [s2 EXCEPT !.timeouts = @ \ {s2.settleTimeoutRef}] ELSE s2

\* fault variant: the start slot is not clamped to keep the entry in the window
addTaskAtSlotUnclamped(s, day, slot, minutes) ==
  IF ~canCreate THEN s
  ELSE LET snappedDuration ==
             Max(SLOT_MINUTES, RoundDiv(minutes, SLOT_MINUTES) * SLOT_MINUTES)
           startDate == dayWithMinutes(day, START_MINUTES + slot * SLOT_MINUTES)
           endDate == startDate + snappedDuration
       IN onTaskCreate(s,
            [startDate |-> startDate, endDate |-> endDate,
             timeSpent |-> (snappedDuration * 100) \div 60],
            [day |-> startOfDay(day), slot |-> slot,
             durationMinutes |-> snappedDuration])

\* fault variant: the last allowed start slot is one too far down
addTaskAtSlotOffByOne(s, day, slot, minutes) ==
  IF ~canCreate THEN s
  ELSE LET snappedDuration ==
             Max(SLOT_MINUTES, RoundDiv(minutes, SLOT_MINUTES) * SLOT_MINUTES)
           durationSlots == Max(1, CeilDiv(snappedDuration, SLOT_MINUTES))
           maxStart == Max(0, SLOT_COUNT - durationSlots + 1)
           safeSlot == clamp(slot, 0, maxStart)
           startDate == dayWithMinutes(day, START_MINUTES + safeSlot * SLOT_MINUTES)
           endDate == startDate + snappedDuration
       IN onTaskCreate(s,
            [startDate |-> startDate, endDate |-> endDate,
             timeSpent |-> (snappedDuration * 100) \div 60],
            [day |-> startOfDay(day), slot |-> safeSlot,
             durationMinutes |-> snappedDuration])

addTaskAtSlot(s, day, slot, minutes) ==
  IF ~canCreate THEN s
  ELSE LET snappedDuration ==
             Max(SLOT_MINUTES, RoundDiv(minutes, SLOT_MINUTES) * SLOT_MINUTES)
           durationSlots == Max(1, CeilDiv(snappedDuration, SLOT_MINUTES))
           maxStart == Max(0, SLOT_COUNT - durationSlots)
           safeSlot == clamp(slot, 0, maxStart)
           startDate == dayWithMinutes(day, START_MINUTES + safeSlot * SLOT_MINUTES)
           endDate == startDate + snappedDuration
       IN onTaskCreate(s,
            [startDate |-> startDate, endDate |-> endDate,
             timeSpent |-> (snappedDuration * 100) \div 60],
            [day |-> startOfDay(day), slot |-> safeSlot,
             durationMinutes |-> snappedDuration])

\* fault variant: the create draft state is not cleared when the selection stops
stopCreateSelectionKeepsDraft(s, commit) ==
  LET active == s.createDraftRef
      s1 == [detachCreateListeners(s) EXCEPT !.createDraftRef = Null]
  IN IF ~canCreate THEN s1
     ELSE IF ~commit \/ active = Null THEN s1
     ELSE LET minSlot == Min(active.startSlot, active.endSlot)
              maxSlot == Max(active.startSlot, active.endSlot)
              draggedSlots == Max(1, maxSlot - minSlot + 1)
              minutes == IF draggedSlots = 1 THEN DEFAULT_TASK_MINUTES
                         ELSE draggedSlots * SLOT_MINUTES
          IN addTaskAtSlot(s1, active.dayDate, minSlot, minutes)

\* fault variant: a click creates an entry of one block
stopCreateSelectionOneBlock(s, commit) ==
  LET active == s.createDraftRef
      s1 == [detachCreateListeners(s) EXCEPT !.createDraftRef = Null,
                                             !.createDraft = Null]
  IN IF ~canCreate THEN s1
     ELSE IF ~commit \/ active = Null THEN s1
     ELSE LET minSlot == Min(active.startSlot, active.endSlot)
              maxSlot == Max(active.startSlot, active.endSlot)
              draggedSlots == Max(1, maxSlot - minSlot + 1)
          IN addTaskAtSlot(s1, active.dayDate, minSlot, draggedSlots * SLOT_MINUTES)

\* fault variant: the entry starts at the anchor slot, whatever the direction
stopCreateSelectionFromAnchor(s, commit) ==
  LET active == s.createDraftRef
      s1 == [detachCreateListeners(s) EXCEPT !.createDraftRef = Null,
                                             !.createDraft = Null]
  IN IF ~canCreate THEN s1
     ELSE IF ~commit \/ active = Null THEN s1
     ELSE LET minSlot == Min(active.startSlot, active.endSlot)
              maxSlot == Max(active.startSlot, active.endSlot)
              draggedSlots == Max(1, maxSlot - minSlot + 1)
              minutes == IF draggedSlots = 1 THEN DEFAULT_TASK_MINUTES
                         ELSE draggedSlots * SLOT_MINUTES
          IN addTaskAtSlot(s1, active.dayDate, active.startSlot, minutes)

stopCreateSelection(s, commit) ==
  LET active == s.createDraftRef
      s1 == [detachCreateListeners(s) EXCEPT !.createDraftRef = Null,
                                             !.createDraft = Null]
  IN IF ~canCreate THEN s1
     ELSE IF ~commit \/ active = Null THEN s1
     ELSE LET minSlot == Min(active.startSlot, active.endSlot)
              maxSlot == Max(active.startSlot, active.endSlot)
              draggedSlots == Max(1, maxSlot - minSlot + 1)
              minutes == IF draggedSlots = 1 THEN DEFAULT_TASK_MINUTES
                         ELSE draggedSlots * SLOT_MINUTES
          IN addTaskAtSlot(s1, active.dayDate, minSlot, minutes)

\* fault variant: the dragged id and the drop preview survive the reset
resetDragStateKeepsDragging(s) ==
  LET s1 == [s EXCEPT !.hoveredEntryId = NoId,
                      !.dragOverlayWidth = Null,
                      !.dragOverlayHeight = Null,
                      !.dragPointer = Null,
                      !.hoverSlot = Null]
      s2 == stopCreateSelection(s1, FALSE)
  IN [s2 EXCEPT !.dragAnchorSlotRef = 0,
                !.dragAnchorPxRef = [x |-> 0, y |-> 0],
                !.dragStartPointerRef = Null]

\* fault variant: the reset releases a create selection with a commit
resetDragStateCommitsCreate(s) ==
  LET s1 == [s EXCEPT !.hoveredEntryId = NoId,
                      !.draggingId = NoId,
                      !.dragPreview = Null,
                      !.dragOverlayWidth = Null,
                      !.dragOverlayHeight = Null,
                      !.dragPointer = Null,
                      !.hoverSlot = Null]
      s2 == stopCreateSelection(s1, TRUE)
  IN [s2 EXCEPT !.dragAnchorSlotRef = 0,
                !.dragAnchorPxRef = [x |-> 0, y |-> 0],
                !.dragStartPointerRef = Null]

resetDragState(s) ==
  LET s1 == [s EXCEPT !.hoveredEntryId = NoId,
                      !.draggingId = NoId,
                      !.dragPreview = Null,
                      !.dragOverlayWidth = Null,
                      !.dragOverlayHeight = Null,
                      !.dragPointer = Null,
                      !.hoverSlot = Null]
      s2 == stopCreateSelection(s1, FALSE)
  IN [s2 EXCEPT !.dragAnchorSlotRef = 0,
                !.dragAnchorPxRef = [x |-> 0, y |-> 0],
                !.dragStartPointerRef = Null]

\* fault variant: the session, the draft and the listeners survive the release
stopResizingKeepsSession(s, closure, commit) ==
  LET active == s.resizeSessionRef
      draft == s.resizeDraftRef
      s1 == setGlobalResizeCursor(s, FALSE)
      changed == /\ active # Null
                 /\ draft # Null
                 /\ \/ minutesOfDay(draft.startDate) # active.startMinutes
                    \/ minutesOfDay(draft.endDate) # active.endMinutes
  IN IF commit /\ active # Null /\ draft # Null /\ draft.id = active.id /\ changed
     THEN resizeAppointment(s1, closure, active.id, draft.startDate, draft.endDate)
     ELSE s1

stopResizing(s, closure, commit) ==
  LET active == s.resizeSessionRef
      draft == s.resizeDraftRef
      s1 == [setGlobalResizeCursor(detachResizeListeners(s), FALSE)
               EXCEPT !.resizeSessionRef = Null,
                      !.resizeDraftRef = Null,
                      !.resizeDraft = Null]
      changed == /\ active # Null
                 /\ draft # Null
                 /\ \/ minutesOfDay(draft.startDate) # active.startMinutes
                    \/ minutesOfDay(draft.endDate) # active.endMinutes
  IN IF commit /\ active # Null /\ draft # Null /\ draft.id = active.id /\ changed
     THEN resizeAppointment(s1, closure, active.id, draft.startDate, draft.endDate)
     ELSE s1

\* ---------------------------------------------------------------- layout
\* Screen rectangles of the rendered elements. The grid's origin is (0, 0);
\* day column d spans x in [d * ColWidth, (d + 1) * ColWidth].
Views == {"week", "month"}
GridHeight == SLOT_COUNT * SLOT_HEIGHT
FarPx == GridHeight + SLOT_HEIGHT

daysForView(view) == [i \in 1..NumDays |-> dayDate(i - 1)]

Rect(left, top, width, height) ==
  [left |-> left, top |-> top, width |-> width, height |-> height,
   right |-> left + width, bottom |-> top + height]

DayRect(day) == Rect((day \div 1440) * ColWidth, 0, ColWidth, GridHeight)
MonthCellRect(day) == Rect((day \div 1440) * ColWidth, 0, ColWidth, ColWidth)

\* registries of drop zones, in insertion (render) order; the grid's columns
\* exist only in the grid views and the month's cells only in the month view
gridDayRefs(s) ==
  IF s.currentView = "month" THEN << >>
  ELSE LET days == daysForView(s.currentView)
       IN [i \in 1..Len(days) |-> [key |-> dayKey(days[i]), rect |-> DayRect(days[i])]]

monthDayRefs(s) ==
  IF s.currentView # "month" THEN << >>
  ELSE LET days == daysForView(s.currentView)
       IN [i \in 1..Len(days) |-> [key |-> dayKey(days[i]), rect |-> MonthCellRect(days[i])]]

\* fault variant: the right and bottom edges are outside the rectangle
rectContainsHalfOpen(rect, x, y) ==
  x >= rect.left /\ x < rect.right /\ y >= rect.top /\ y < rect.bottom

\* the test of one registered element's bounding rectangle
rectContains(rect, x, y) ==
  x >= rect.left /\ x <= rect.right /\ y >= rect.top /\ y <= rect.bottom

\* the loop over the registry's entries, returning at the first hit
RECURSIVE zoneFrom(_, _, _, _)
zoneFrom(zones, i, x, y) ==
  IF i > Len(zones) THEN Null
  ELSE IF rectContains(zones[i].rect, x, y) THEN zones[i]
  ELSE zoneFrom(zones, i + 1, x, y)

findZoneAtPoint(zones, x, y) == zoneFrom(zones, 1, x, y)

\* entriesForDay: the entries starting on the day, stably sorted by start
\* fault variant: an entry goes before the entries with the same start
RECURSIVE InsertByStartBeforeTies(_, _)
InsertByStartBeforeTies(sorted, e) ==
  IF sorted = << >> THEN <<e>>
  ELSE IF Head(sorted).startDate < e.startDate
       THEN <<Head(sorted)>> \o InsertByStartBeforeTies(Tail(sorted), e)
       ELSE <<e>> \o sorted

RECURSIVE InsertByStart(_, _)
InsertByStart(sorted, e) ==
  IF sorted = << >> THEN <<e>>
  ELSE IF Head(sorted).startDate <= e.startDate
       THEN <<Head(sorted)>> \o InsertByStart(Tail(sorted), e)
       ELSE <<e>> \o sorted

RECURSIVE SortByStart(_)
SortByStart(list) ==
  IF list = << >> THEN << >>
  ELSE InsertByStart(SortByStart(SubSeq(list, 1, Len(list) - 1)), list[Len(list)])

entriesForDay(s, day) ==
  LET OnDay(entry) == sameDay(entry.startDate, day)
  IN SortByStart(SelectSeq(appointmentsOf(s), OnDay))

\* the grid renders an entry under resize with the draft's range
WithResizeDraft(s, entry) ==
  IF s.resizeDraft = Null \/ s.resizeDraft.id # entry.id THEN entry
  ELSE [entry EXCEPT
          !.startDate = s.resizeDraft.startDate,
          !.endDate = s.resizeDraft.endDate,
          !.timeSpent = HoursOf(Max(SLOT_MINUTES,
                          s.resizeDraft.endDate - s.resizeDraft.startDate))]

GridCardRect(entry) ==
  LET startMins == clamp(minutesOfDay(entry.startDate) - START_MINUTES, 0,
                         SLOT_COUNT * SLOT_MINUTES - SLOT_MINUTES)
      top == (startMins * SLOT_HEIGHT) \div SLOT_MINUTES
      height == Max(20, (durationMinutes(entry, SLOT_MINUTES) * SLOT_HEIGHT)
                          \div SLOT_MINUTES - 2)
  IN Rect(DayRect(startOfDay(entry.startDate)).left + 3, top, ColWidth - 6, height)

\* ------------------------------------------------------- lanes (App.tsx)
\* fault variant: a lane is free again from the start of its last entry
layoutEndAtStart(entry, slotMinutes) == minutesOfDay(entry.startDate)

\* where the lane of an entry is taken until
layoutEnd(entry, slotMinutes) ==
  minutesOfDay(entry.startDate) + durationMinutes(entry, slotMinutes)

\* the forEach over the sorted entries; lanes are numbered from 0
RECURSIVE assignLanes(_, _, _, _)
assignLanes(sorted, slotMinutes, laneEnds, laneById) ==
  IF sorted = << >> THEN [laneEnds |-> laneEnds, laneById |-> laneById]
  ELSE LET entry == Head(sorted)
           start == minutesOfDay(entry.startDate)
           free == {k \in 1..Len(laneEnds) : start >= laneEnds[k]}
           found == IF free = {} THEN -1
                    ELSE (CHOOSE k \in free : \A j \in free : k <= j) - 1
           lane == IF found < 0 THEN Len(laneEnds) ELSE found
           nextEnds == IF found < 0
                       THEN Append(laneEnds, layoutEnd(entry, slotMinutes))
                       ELSE [laneEnds EXCEPT
                               ![lane + 1] = layoutEnd(entry, slotMinutes)]
       IN assignLanes(Tail(sorted), slotMinutes, nextEnds,
                      (entry.id :> lane) @@ laneById)

\* fault variant: the lane count of no entries is 0
buildDayLayoutNoFloor(entries, slotMinutes) ==
  LET r == assignLanes(SortByStart(entries), slotMinutes, << >>, << >>)
  IN [laneById |-> r.laneById, laneCount |-> Len(r.laneEnds)]

buildDayLayout(entries, slotMinutes) ==
  LET r == assignLanes(SortByStart(entries), slotMinutes, << >>, << >>)
  IN [laneById |-> r.laneById, laneCount |-> Max(1, Len(r.laneEnds))]

\* the cards on screen: [entry, rect], entry as passed to the card's handlers
RenderedCards(s) ==
  LET days == daysForView(s.currentView)
  IN IF s.currentView # "month"
     THEN UNION {
            LET list == entriesForDay(s, days[d])
            IN {[entry |-> WithResizeDraft(s, list[i]),
                 rect |-> GridCardRect(WithResizeDraft(s, list[i]))] :
                  i \in 1..Len(list)} : d \in 1..Len(days)}
     ELSE UNION {
            LET list == entriesForDay(s, days[d])
                cell == MonthCellRect(days[d])
            IN {[entry |-> list[i],
                 rect |-> Rect(cell.left + 3, cell.top + 20 * i, ColWidth - 6, 18)] :
                  i \in 1..Min(3, Len(list))} : d \in 1..Len(days)}

\* ------------------------------------------------------- gesture handlers
startResize(s, entry, edge, clientY, button) ==
  IF ~canResize THEN s
  ELSE IF button # 0 THEN s
  ELSE
    LET closure == RenderClosure(s)
        s1 == IF s.draggingId # NoId THEN resetDragState(s) ELSE s
        s2 == stopCreateSelection(s1, FALSE)
        session == [id |-> entry.id, edge |-> edge,
                    day |-> startOfDay(entry.startDate),
                    pointerStartY |-> clientY,
                    startMinutes |-> minutesOfDay(entry.startDate),
                    endMinutes |-> minutesOfDay(entry.endDate)]
        initialDraft == [id |-> entry.id, startDate |-> entry.startDate,
                         endDate |-> entry.endDate]
        s3 == [setGlobalResizeCursor([s2 EXCEPT !.hoverSlot = Null], TRUE)
                 EXCEPT !.resizeSessionRef = session,
                        !.resizeDraftRef = initialDraft,
                        !.resizeDraft = initialDraft,
                        !.dragPreview = Null]
        s4 == detachResizeListeners(s3)
        listeners == [kind |-> "resize", entryId |-> entry.id,
                      closure |-> closure]
    IN [s4 EXCEPT !.resizeListenersRef = listeners,
                  !.windowListeners = @ \cup {listeners}]

\* the pointermove listener installed by startResize
\* fault variant: the pointer delta is added to the draft of the last move
resizeOnMoveFromDraft(s, listeners, clientY) ==
  LET active == s.resizeSessionRef
  IN IF active = Null \/ active.id # listeners.entryId THEN s
     ELSE
       LET deltaSlots == RoundDiv(clientY - active.pointerStartY, SLOT_HEIGHT)
           deltaMinutes == deltaSlots * SLOT_MINUTES
           prev == s.resizeDraft
           baseStart == IF prev = Null THEN active.startMinutes
                        ELSE prev.startDate - startOfDay(active.day)
           baseEnd == IF prev = Null THEN active.endMinutes
                      ELSE prev.endDate - startOfDay(active.day)
           nextStartMinutes ==
             IF active.edge = "top"
             THEN clamp(baseStart + deltaMinutes, DAY_START_MINUTES,
                        active.endMinutes - SLOT_MINUTES)
             ELSE active.startMinutes
           nextEndMinutes ==
             IF active.edge = "top" THEN active.endMinutes
             ELSE clamp(baseEnd + deltaMinutes,
                        active.startMinutes + SLOT_MINUTES, DAY_END_MINUTES)
           next == [id |-> active.id,
                    startDate |-> dayWithMinutes(active.day, nextStartMinutes),
                    endDate |-> dayWithMinutes(active.day, nextEndMinutes)]
       IN [s EXCEPT !.resizeDraftRef = next, !.resizeDraft = next]

resizeOnMove(s, listeners, clientY) ==
  LET active == s.resizeSessionRef
  IN IF active = Null \/ active.id # listeners.entryId THEN s
     ELSE
       LET deltaSlots == RoundDiv(clientY - active.pointerStartY, SLOT_HEIGHT)
           deltaMinutes == deltaSlots * SLOT_MINUTES
           nextStartMinutes ==
             IF active.edge = "top"
             THEN clamp(active.startMinutes + deltaMinutes, DAY_START_MINUTES,
                        active.endMinutes - SLOT_MINUTES)
             ELSE active.startMinutes
           nextEndMinutes ==
             IF active.edge = "top" THEN active.endMinutes
             ELSE clamp(active.endMinutes + deltaMinutes,
                        active.startMinutes + SLOT_MINUTES, DAY_END_MINUTES)
           nextStart == dayWithMinutes(active.day, nextStartMinutes)
           nextEnd == dayWithMinutes(active.day, nextEndMinutes)
           prev == s.resizeDraft
       IN IF /\ prev # Null /\ prev.id = active.id
             /\ prev.startDate = nextStart /\ prev.endDate = nextEnd
          THEN s
          ELSE LET next == [id |-> active.id, startDate |-> nextStart,
                            endDate |-> nextEnd]
               IN [s EXCEPT !.resizeDraftRef = next, !.resizeDraft = next]

\* the pointerup / pointercancel listener installed by startResize
resizeOnUp(s, listeners) == stopResizing(s, listeners.closure, TRUE)

\* --------------------------------------- setResizeDraft updaters (deferred)
\* the draft onMove computes before it calls setResizeDraft, Null where the
\* handler returns early
resizeMoveNext(s, listeners, clientY) ==
  LET active == s.resizeSessionRef
  IN IF active = Null \/ active.id # listeners.entryId THEN Null
     ELSE
       LET deltaSlots == RoundDiv(clientY - active.pointerStartY, SLOT_HEIGHT)
           deltaMinutes == deltaSlots * SLOT_MINUTES
           nextStartMinutes ==
             IF active.edge = "top"
             THEN clamp(active.startMinutes + deltaMinutes, DAY_START_MINUTES,
                        active.endMinutes - SLOT_MINUTES)
             ELSE active.startMinutes
           nextEndMinutes ==
             IF active.edge = "top" THEN active.endMinutes
             ELSE clamp(active.endMinutes + deltaMinutes,
                        active.startMinutes + SLOT_MINUTES, DAY_END_MINUTES)
       IN [id |-> active.id,
           startDate |-> dayWithMinutes(active.day, nextStartMinutes),
           endDate |-> dayWithMinutes(active.day, nextEndMinutes)]

\* the updater function onMove passes to setResizeDraft, run on the state
\* React holds: it writes resizeDraftRef only when it returns a new draft
resizeDraftUpdater(s, next) ==
  LET prev == s.resizeDraft
  IN IF /\ prev # Null /\ prev.id = next.id
        /\ prev.startDate = next.startDate /\ prev.endDate = next.endDate
     THEN s
     ELSE [s EXCEPT !.resizeDraftRef = next, !.resizeDraft = next]

\* React keeps the updates of a state hook in a queue until it renders. An
\* update dispatched while the queue is empty is computed at once (the
\* updater runs inside setResizeDraft and its result is kept as the eager
\* state); an update dispatched while others are pending is computed by the
\* next render. Queue entries are [kind, next], kind "eager" or "updater";
\* "late" stands for the updaters left pending by a release (see below).
\* The result is [state, queue].
resizeOnMoveQueued(s, queue, listeners, clientY) ==
  LET next == resizeMoveNext(s, listeners, clientY)
  IN IF next = Null THEN [state |-> s, queue |-> queue]
     ELSE IF queue = << >>
     THEN LET eager == resizeDraftUpdater(s, next)
          IN IF eager.resizeDraft = s.resizeDraft
             THEN [state |-> s, queue |-> queue]
             ELSE [state |-> [s EXCEPT !.resizeDraftRef = eager.resizeDraftRef],
                   queue |-> <<[kind |-> "eager", next |-> next]>>]
     ELSE [state |-> s,
           queue |-> Append(queue, [kind |-> "updater", next |-> next])]

RECURSIVE runDraftUpdates(_, _)
runDraftUpdates(s, queue) ==
  IF queue = << >> THEN s
  ELSE LET u == Head(queue)
           s1 == IF u.kind = "eager" THEN [s EXCEPT !.resizeDraft = u.next]
                 ELSE resizeDraftUpdater(s, u.next)
       IN runDraftUpdates(s1, Tail(queue))

\* a render: the pending updates are applied in order, then the effect
\* copies a changed resizeDraft into resizeDraftRef
renderDraftUpdates(s, queue) ==
  IF Head(queue).kind = "late"
  THEN [s EXCEPT !.resizeDraftRef = Head(queue).next]
  ELSE LET out == runDraftUpdates(s, queue)
       IN IF out.resizeDraft # s.resizeDraft
          THEN [out EXCEPT !.resizeDraftRef = out.resizeDraft] ELSE out

\* the release handler with updates pending. setResizeDraft(null) of a
\* pointerup is rendered at once, ahead of the pending updaters of
\* pointermove events; React runs those in a later render on the state they
\* were queued on, and then applies the null again: the draft stays null and
\* the ref is left with the last draft an updater wrote, kept here as one
\* "late" entry
resizeOnUpQueued(s, queue, listeners) ==
  LET late == runDraftUpdates([s EXCEPT !.resizeDraftRef = Null], queue).resizeDraftRef
  IN [state |-> resizeOnUp(s, listeners),
      queue |-> IF late # Null THEN <<[kind |-> "late", next |-> late]>>
                ELSE << >>]

slotFromDayPointer(rect, clientY, maxSlot) ==
  LET y == clamp(clientY - rect.top, 0, rect.height - 1)
      rawSlot == FloorDiv(y, SLOT_HEIGHT)
  IN clamp(rawSlot, 0, maxSlot)

\* fault variant: a selection starts even while a move or a resize is active
startCreateSelectionUnguarded(s, day, clientY, button, onEntry) ==
  IF ~canCreate THEN s
  ELSE IF button # 0 THEN s
  ELSE IF s.currentView = "month" THEN s
  ELSE IF onEntry THEN s
  ELSE
    LET slot == slotFromDayPointer(DayRect(day), clientY, SLOT_COUNT - 1)
        next == [day |-> dayKey(day), dayDate |-> startOfDay(day),
                 startSlot |-> slot, endSlot |-> slot]
        s1 == [s EXCEPT !.hoverSlot = Null,
                        !.createDraft = next,
                        !.createDraftRef = next]
        s2 == detachCreateListeners(s1)
        listeners == [kind |-> "create"]
    IN [s2 EXCEPT !.createListenersRef = listeners,
                  !.windowListeners = @ \cup {listeners}]

startCreateSelection(s, day, clientY, button, onEntry) ==
  IF ~canCreate THEN s
  ELSE IF button # 0 THEN s
  ELSE IF s.draggingId # NoId \/ s.resizeSessionRef # Null
          \/ s.currentView = "month" THEN s
  ELSE IF onEntry THEN s
  ELSE
    LET slot == slotFromDayPointer(DayRect(day), clientY, SLOT_COUNT - 1)
        next == [day |-> dayKey(day), dayDate |-> startOfDay(day),
                 startSlot |-> slot, endSlot |-> slot]
        s1 == [s EXCEPT !.hoverSlot = Null,
                        !.createDraft = next,
                        !.createDraftRef = next]
        s2 == detachCreateListeners(s1)
        listeners == [kind |-> "create"]
    IN [s2 EXCEPT !.createListenersRef = listeners,
                  !.windowListeners = @ \cup {listeners}]

\* fault variant: every mousemove of a selection commits the range so far
createOnMoveCommits(s, clientY) ==
  LET active == s.createDraftRef
      zones == gridDayRefs(s)
  IN IF active = Null THEN s
     ELSE IF ~\E i \in 1..Len(zones) : zones[i].key = active.day THEN s
     ELSE
       LET rect == zones[CHOOSE i \in 1..Len(zones) : zones[i].key = active.day].rect
           y == clamp(clientY - rect.top, 0, rect.height - 1)
           nextSlot == clamp(FloorDiv(y, SLOT_HEIGHT), 0, SLOT_COUNT - 1)
           updated == [active EXCEPT !.endSlot = nextSlot]
       IN addTaskAtSlot([s EXCEPT !.createDraftRef = updated, !.createDraft = updated],
                        active.dayDate, Min(active.startSlot, nextSlot), SLOT_MINUTES)

\* fault variant: the slot under the pointer is not clamped to the column
createOnMoveUnclamped(s, clientY) ==
  LET active == s.createDraftRef
      zones == gridDayRefs(s)
  IN IF active = Null THEN s
     ELSE IF ~\E i \in 1..Len(zones) : zones[i].key = active.day THEN s
     ELSE
       LET rect == zones[CHOOSE i \in 1..Len(zones) : zones[i].key = active.day].rect
           nextSlot == FloorDiv(clientY - rect.top, SLOT_HEIGHT)
       IN IF nextSlot = active.endSlot THEN s
          ELSE LET updated == [active EXCEPT !.endSlot = nextSlot]
               IN [s EXCEPT !.createDraftRef = updated, !.createDraft = updated]

\* the mousemove listener installed by startCreateSelection
createOnMove(s, clientY) ==
  LET active == s.createDraftRef
      zones == gridDayRefs(s)
  IN IF active = Null THEN s
     ELSE IF ~\E i \in 1..Len(zones) : zones[i].key = active.day THEN s
     ELSE
       LET rect == zones[CHOOSE i \in 1..Len(zones) : zones[i].key = active.day].rect
           y == clamp(clientY - rect.top, 0, rect.height - 1)
           nextSlot == clamp(FloorDiv(y, SLOT_HEIGHT), 0, SLOT_COUNT - 1)
       IN IF nextSlot = active.endSlot THEN s
          ELSE LET updated == [active EXCEPT !.endSlot = nextSlot]
               IN [s EXCEPT !.createDraftRef = updated, !.createDraft = updated]

\* the mouseup listener installed by startCreateSelection
createOnUp(s) == stopCreateSelection(s, TRUE)

\* hover handlers of the cards and of the day columns
onEntryMouseEnter(s, id) ==
  IF s.draggingId # NoId \/ s.resizeSessionRef # Null THEN s
  ELSE [s EXCEPT !.hoveredEntryId = id]

onEntryMouseLeave(s, id) ==
  [s EXCEPT !.hoveredEntryId = IF @ = id THEN NoId ELSE @]

onDayMouseMove(s, day, clientY, onEntry) ==
  IF ~canCreate THEN s
  ELSE IF s.draggingId # NoId \/ s.resizeSessionRef # Null
          \/ s.createDraftRef # Null \/ s.currentView = "month" THEN s
  ELSE IF onEntry THEN [s EXCEPT !.hoverSlot = Null]
  ELSE LET slot == slotFromDayPointer(DayRect(day), clientY, maxNewTaskStartSlot)
       IN [s EXCEPT !.hoverSlot = [day |-> dayKey(day), slot |-> slot]]

onDayMouseLeave(s) ==
  IF s.createDraftRef # Null THEN s ELSE [s EXCEPT !.hoverSlot = Null]

onDndDragStart(s, id, rect, startX, startY) ==
  IF ~canDrag THEN s
  ELSE IF s.resizeSessionRef # Null THEN s
  ELSE IF id = NoId THEN s
  ELSE
    LET sourceEntry == FindById(appointmentsOf(s), id)
    IN IF sourceEntry = Null THEN s
       ELSE
         LET s1 == stopCreateSelection(s, FALSE)
             offsetY == clamp(startY - rect.top, 0, rect.height - 1)
             offsetX == clamp(startX - rect.left, 0, rect.width - 1)
             entrySlots == Max(1, CeilDiv(durationMinutes(sourceEntry, SLOT_MINUTES),
                                          SLOT_MINUTES))
         IN [s1 EXCEPT !.hoveredEntryId = NoId,
                       !.hoverSlot = Null,
                       !.draggingId = id,
                       !.dragOverlayWidth = rect.width,
                       !.dragOverlayHeight = rect.height,
                       !.dragStartPointerRef = [x |-> startX, y |-> startY],
                       !.dragPointer = [x |-> startX, y |-> startY],
                       !.dragAnchorPxRef = [x |-> offsetX, y |-> offsetY],
                       !.dragAnchorSlotRef =
                          clamp(FloorDiv(offsetY, SLOT_HEIGHT), 0, entrySlots - 1)]

\* dragSlots of the current render
dragSlotsOf(s) ==
  LET draggingEntry == FindById(appointmentsOf(s), s.draggingId)
      draggingDurationMinutes ==
        IF draggingEntry # Null THEN durationMinutes(draggingEntry, SLOT_MINUTES)
        ELSE 0
      minutes == IF draggingDurationMinutes # 0 THEN draggingDurationMinutes
                 ELSE SLOT_MINUTES
  IN Max(1, CeilDiv(minutes, SLOT_MINUTES))

\* fault variant: the preview slot is not clamped to the last slot that keeps
\* the entry inside the day window
onDndDragMoveUnclamped(s, deltaX, deltaY) ==
  IF ~canDrag THEN s
  ELSE IF s.resizeSessionRef # Null THEN s
  ELSE IF s.draggingId = NoId THEN s
  ELSE IF s.dragStartPointerRef = Null THEN s
  ELSE
    LET pointerX == s.dragStartPointerRef.x + deltaX
        pointerY == s.dragStartPointerRef.y + deltaY
        s1 == [s EXCEPT !.dragPointer = [x |-> pointerX, y |-> pointerY]]
    IN IF s.currentView = "month"
       THEN LET hit == findZoneAtPoint(monthDayRefs(s), pointerX, pointerY)
            IN [s1 EXCEPT !.dragPreview =
                  IF hit # Null THEN [mode |-> "month", day |-> hit.key]
                  ELSE Null]
       ELSE LET hit == findZoneAtPoint(gridDayRefs(s), pointerX, pointerY)
            IN IF hit = Null THEN [s1 EXCEPT !.dragPreview = Null]
               ELSE
                 LET relativeY == clamp(pointerY - hit.rect.top, 0,
                                        hit.rect.height - 1)
                     pointerSlot == FloorDiv(relativeY, SLOT_HEIGHT)
                     topSlot == pointerSlot - s.dragAnchorSlotRef
                 IN [s1 EXCEPT !.dragPreview =
                       [mode |-> "grid", day |-> hit.key, slot |-> Max(0, topSlot)]]

onDndDragMove(s, deltaX, deltaY) ==
  IF ~canDrag THEN s
  ELSE IF s.resizeSessionRef # Null THEN s
  ELSE IF s.draggingId = NoId THEN s
  ELSE IF s.dragStartPointerRef = Null THEN s
  ELSE
    LET pointerX == s.dragStartPointerRef.x + deltaX
        pointerY == s.dragStartPointerRef.y + deltaY
        s1 == [s EXCEPT !.dragPointer = [x |-> pointerX, y |-> pointerY]]
    IN IF s.currentView = "month"
       THEN LET hit == findZoneAtPoint(monthDayRefs(s), pointerX, pointerY)
            IN [s1 EXCEPT !.dragPreview =
                  IF hit # Null THEN [mode |-> "month", day |-> hit.key]
                  ELSE Null]
       ELSE LET hit == findZoneAtPoint(gridDayRefs(s), pointerX, pointerY)
            IN IF hit = Null THEN [s1 EXCEPT !.dragPreview = Null]
               ELSE
                 LET relativeY == clamp(pointerY - hit.rect.top, 0,
                                        hit.rect.height - 1)
                     pointerSlot == FloorDiv(relativeY, SLOT_HEIGHT)
                     topSlot == pointerSlot - s.dragAnchorSlotRef
                     slot == clamp(topSlot, 0, Max(0, SLOT_COUNT - dragSlotsOf(s)))
                 IN [s1 EXCEPT !.dragPreview =
                       [mode |-> "grid", day |-> hit.key, slot |-> slot]]

\* fault variant: a cancelled drag clears the state but not the refs
onDndDragCancelKeepsRefs(s) ==
  IF ~canDrag THEN s
  ELSE IF s.resizeSessionRef # Null THEN s
  ELSE [resetDragState(s) EXCEPT !.dragAnchorSlotRef = s.dragAnchorSlotRef,
                                 !.dragAnchorPxRef = s.dragAnchorPxRef,
                                 !.dragStartPointerRef = s.dragStartPointerRef]

onDndDragCancel(s) ==
  IF ~canDrag THEN s
  ELSE IF s.resizeSessionRef # Null THEN s
  ELSE resetDragState(s)

\* fault variant: a release without a drop preview moves the entry to the
\* first slot of its own day
onDndDragEndWithoutPreview(s) ==
  IF ~canDrag THEN s
  ELSE IF s.resizeSessionRef # Null THEN s
  ELSE IF s.draggingId = NoId THEN resetDragState(s)
  ELSE IF s.dragPreview = Null
  THEN LET source == FindById(appointmentsOf(s), s.draggingId)
       IN resetDragState(
            IF source # Null
            THEN moveAppointment(s, RenderClosure(s), s.draggingId,
                                 startOfDay(source.startDate) + START_MINUTES)
            ELSE s)
  ELSE IF s.dragPreview.mode = "grid"
  THEN LET day == parseDayKey(s.dragPreview.day)
           nextStart == dayWithMinutes(day, START_MINUTES
                                        + s.dragPreview.slot * SLOT_MINUTES)
       IN resetDragState(
            IF day # NoDate
            THEN moveAppointment(s, RenderClosure(s), s.draggingId, nextStart)
            ELSE s)
  ELSE LET day == parseDayKey(s.dragPreview.day)
           source == FindById(appointmentsOf(s), s.draggingId)
       IN resetDragState(
            IF day # NoDate /\ source # Null
            THEN moveAppointment(s, RenderClosure(s), s.draggingId,
                                 startOfDay(day) + minutesOfDay(source.startDate))
            ELSE s)

onDndDragEnd(s) ==
  IF ~canDrag THEN s
  ELSE IF s.resizeSessionRef # Null THEN s
  ELSE IF s.draggingId = NoId \/ s.dragPreview = Null THEN resetDragState(s)
  ELSE IF s.dragPreview.mode = "grid"
  THEN LET day == parseDayKey(s.dragPreview.day)
           nextStart == dayWithMinutes(day, START_MINUTES
                                        + s.dragPreview.slot * SLOT_MINUTES)
       IN resetDragState(
            IF day # NoDate
            THEN moveAppointment(s, RenderClosure(s), s.draggingId, nextStart)
            ELSE s)
  ELSE IF s.dragPreview.mode = "month"
  THEN LET day == parseDayKey(s.dragPreview.day)
           source == FindById(appointmentsOf(s), s.draggingId)
       IN resetDragState(
            IF day # NoDate /\ source # Null
            THEN moveAppointment(s, RenderClosure(s), s.draggingId,
                                 startOfDay(day) + minutesOfDay(source.startDate))
            ELSE s)
  ELSE resetDragState(s)

\* fault variant: the entry is deleted with its gesture left running
deleteAppointmentKeepsGesture(s, id) ==
  IF ~canDelete THEN s
  ELSE
    LET source == FindById(appointmentsOf(s), id)
    IN IF source = Null THEN s
       ELSE onTaskDelete(IF s.settleEntryId = id
                         THEN [s EXCEPT !.settleEntryId = NoId] ELSE s, source)

deleteAppointment(s, id) ==
  IF ~canDelete THEN s
  ELSE
    LET source == FindById(appointmentsOf(s), id)
    IN IF source = Null THEN s
       ELSE
         LET s1 == IF s.resizeSessionRef # Null /\ s.resizeSessionRef.id = id
                   THEN stopResizing(s, RenderClosure(s), FALSE) ELSE s
             s2 == IF s.draggingId = id THEN resetDragState(s1) ELSE s1
             s3 == IF s.settleEntryId = id
                   THEN [s2 EXCEPT !.settleEntryId = NoId] ELSE s2
         IN onTaskDelete(s3, source)

applyViewChange(s, view) == [s EXCEPT !.currentView = view]

\* ------------------------------------------------------------------ state
\* the component state at the start of an event, with an empty emission log
Cur ==
  [tasks |-> tasks,
   internalAppointments |-> internalAppointments,
   currentView |-> currentView,
   draggingId |-> draggingId,
   dragPreview |-> dragPreview,
   dragOverlayWidth |-> dragOverlayWidth,
   dragOverlayHeight |-> dragOverlayHeight,
   dragPointer |-> dragPointer,
   hoveredEntryId |-> hoveredEntryId,
   hoverSlot |-> hoverSlot,
   createDraft |-> createDraft,
   settleEntryId |-> settleEntryId,
   resizeDraft |-> resizeDraft,
   dragAnchorSlotRef |-> dragAnchorSlotRef,
   dragAnchorPxRef |-> dragAnchorPxRef,
   dragStartPointerRef |-> dragStartPointerRef,
   settleTimeoutRef |-> settleTimeoutRef,
   settleRafRef |-> settleRafRef,
   resizeSessionRef |-> resizeSessionRef,
   resizeDraftRef |-> resizeDraftRef,
   resizeListenersRef |-> resizeListenersRef,
   createDraftRef |-> createDraftRef,
   createListenersRef |-> createListenersRef,
   bodyCursor |-> bodyCursor,
   windowListeners |-> windowListeners,
   animationFrames |-> animationFrames,
   timeouts |-> timeouts,
   nextHandle |-> nextHandle,
   dndActive |-> dndActive,
   resizePointerY |-> resizePointerY,
   resizeChain |-> resizeChain,
   emitted |-> << >>]

\* one step: the handler's result becomes the next state; emitted lists the
\* callbacks the handler invoked, each tagged with the event that ran it;
\* resizePointerY is the pointer's last y during a resize and resizeChain the
\* number of resizes started over a resize in progress, lastMutatedId the
\* entry of the last move or resize commit (observation only)
ApplyFields(event, s) ==
  /\ tasks' = s.tasks
  /\ internalAppointments' = s.internalAppointments
  /\ currentView' = s.currentView
  /\ draggingId' = s.draggingId
  /\ dragPreview' = s.dragPreview
  /\ dragOverlayWidth' = s.dragOverlayWidth
  /\ dragOverlayHeight' = s.dragOverlayHeight
  /\ dragPointer' = s.dragPointer
  /\ hoveredEntryId' = s.hoveredEntryId
  /\ hoverSlot' = s.hoverSlot
  /\ createDraft' = s.createDraft
  /\ settleEntryId' = s.settleEntryId
  /\ resizeDraft' = s.resizeDraft
  /\ dragAnchorSlotRef' = s.dragAnchorSlotRef
  /\ dragAnchorPxRef' = s.dragAnchorPxRef
  /\ dragStartPointerRef' = s.dragStartPointerRef
  /\ settleTimeoutRef' = s.settleTimeoutRef
  /\ settleRafRef' = s.settleRafRef
  /\ resizeSessionRef' = s.resizeSessionRef
  /\ resizeDraftRef' = s.resizeDraftRef
  /\ resizeListenersRef' = s.resizeListenersRef
  /\ createDraftRef' = s.createDraftRef
  /\ createListenersRef' = s.createListenersRef
  /\ bodyCursor' = s.bodyCursor
  /\ windowListeners' = s.windowListeners
  /\ animationFrames' = s.animationFrames
  /\ timeouts' = s.timeouts
  /\ nextHandle' = s.nextHandle
  /\ dndActive' = s.dndActive
  /\ resizePointerY' = IF s.resizeSessionRef = Null THEN Null ELSE s.resizePointerY
  /\ resizeChain' = IF s.resizeSessionRef = Null THEN 0 ELSE s.resizeChain
  /\ emitted' = [i \in 1..Len(s.emitted) |->
                   [cb |-> s.emitted[i].cb, op |-> s.emitted[i].op,
                    id |-> s.emitted[i].id, handler |-> event,
                    next |-> s.emitted[i].next]]
  /\ mutations' = mutations
        + Cardinality({i \in 1..Len(s.emitted) : s.emitted[i].op # "delete"})
  /\ deletes' = deletes
        + Cardinality({i \in 1..Len(s.emitted) : s.emitted[i].op = "delete"})
  /\ lastMutatedId' =
       IF \E i \in 1..Len(s.emitted) : s.emitted[i].op \in {"move", "resize"}
       THEN s.emitted[CHOOSE i \in 1..Len(s.emitted) :
                        /\ s.emitted[i].op \in {"move", "resize"}
                        /\ \A j \in (i + 1)..Len(s.emitted) :
                             s.emitted[j].op \notin {"move", "resize"}].id
       ELSE lastMutatedId
  /\ UNCHANGED configVars

\* a step of a handler that calls setResizeDraft with no updater function
Apply(event, s) ==
  /\ ApplyFields(event, s)
  /\ draftUpdates' = draftUpdates

\* an event of the mounted component
Fire(event, s) ==
  /\ mounted
  /\ Apply(event, s)
  /\ mounted' = mounted

\* --------------------------------------------------------- bounded inputs
Buttons == {0, 2}
ResizeEdges == {"top", "bottom"}
\* pointer travel of a resize, in pixels from the pointer-down position
ResizeDeltas == {-FarPx, 14, 15}
\* slots the pointer is put over
SampleSlots == {1, SLOT_COUNT - 1}
\* x of the middle of each day column
PointerXs == {d * ColWidth + ColWidth \div 2 : d \in 0..(NumDays - 1)}
\* y inside each sampled slot, and one y above the grid (over no zone)
PointerYs == {k * SLOT_HEIGHT + 10 : k \in SampleSlots} \cup {-SLOT_HEIGHT}
\* a drag grabs a card this many pixels below its top (or at its last pixel)
GrabOffset == SLOT_HEIGHT + 5
\* y of a hovering mouse: inside the last slot of a column
HoverY == (SLOT_COUNT - 1) * SLOT_HEIGHT + 10
DayIndexes == 0..(NumDays - 1)

AllFeatures == [readOnly |-> FALSE, drag |-> TRUE, resize |-> TRUE,
                create |-> TRUE, delete |-> TRUE]
ReadOnly == [AllFeatures EXCEPT !.readOnly = TRUE]
FeatureSets == {AllFeatures, ReadOnly}
\* readOnly, or one of the three gesture flags switched off
GestureFlagSets ==
  {ReadOnly, [AllFeatures EXCEPT !.drag = FALSE],
   [AllFeatures EXCEPT !.resize = FALSE], [AllFeatures EXCEPT !.create = FALSE]}

\* seeds: the first entry of the bundled data, and an entry on the last
\* model day that ends at the end of the day window (as a create on the last
\* slot or a move to the bottom of a column produces)
SeedA == [id |-> 1, startDate |-> 570, endDate |-> 690, timeSpent |-> 200]
SeedB == [id |-> 2, startDate |-> dayDate(NumDays - 1) + 1380,
          endDate |-> dayDate(NumDays - 1) + 1440, timeSpent |-> 100]
\* an entry shorter than every block size
SeedShort == [id |-> 2, startDate |-> 600, endDate |-> 610, timeSpent |-> 17]
SeedLists == {<<SeedA, SeedB>>}
ShortSeedLists == {<<SeedA, SeedShort>>}

InitParent(seedLists, blockSizes, featureSets, withTimeSpent) ==
  /\ childrenTimeSpent = withTimeSpent
  /\ draftUpdates = << >>
  /\ lastMutatedId = NoId
  /\ blockMinutes \in blockSizes
  /\ features \in featureSets
  /\ tasks \in seedLists
  /\ internalAppointments = extractTaskItems(TaskItemsOf(tasks), blockMinutes)
  /\ currentView \in Views
  /\ draggingId = NoId
  /\ dragPreview = Null
  /\ dragOverlayWidth = Null
  /\ dragOverlayHeight = Null
  /\ dragPointer = Null
  /\ hoveredEntryId = NoId
  /\ hoverSlot = Null
  /\ createDraft = Null
  /\ settleEntryId = NoId
  /\ resizeDraft = Null
  /\ dragAnchorSlotRef = 0
  /\ dragAnchorPxRef = [x |-> 0, y |-> 0]
  /\ dragStartPointerRef = Null
  /\ settleTimeoutRef = NoId
  /\ settleRafRef = NoId
  /\ resizeSessionRef = Null
  /\ resizeDraftRef = Null
  /\ resizeListenersRef = Null
  /\ createDraftRef = Null
  /\ createListenersRef = Null
  /\ bodyCursor = FALSE
  /\ windowListeners = {}
  /\ animationFrames = {}
  /\ timeouts = {}
  /\ nextHandle = 1
  /\ dndActive = Null
  /\ resizePointerY = Null
  /\ resizeChain = 0
  /\ emitted = << >>
  /\ mutations = 0
  /\ deletes = 0
  /\ mounted = TRUE

\* App, which passes no timeSpent prop
InitComponent(seedLists, blockSizes) ==
  InitParent(seedLists, blockSizes, FeatureSets, FALSE)

\* App configures the Scheduler with startTime 9:30, endTime 19:30 and
\* blockMinutes: 15, and lays out no day by lanes
AppBlockSizes == {15}
InitWith(seedLists, blockSizes) ==
  /\ InitComponent(seedLists, blockSizes)
  /\ configStartTime = TimeOf(0, 9 * 60 + 30)
  /\ configEndTime = TimeOf(0, 19 * 60 + 30)
  /\ resolvedTimeline = resolvedTimelineOf(configStartTime, configEndTime, blockMinutes)
  /\ layoutEntries = << >>
  /\ dayLayout = buildDayLayout(layoutEntries, blockMinutes)
Init == InitWith(SeedLists, AppBlockSizes)
InitShortSeed == InitWith(ShortSeedLists, AppBlockSizes)
\* the Scheduler configured with any of the block sizes it accepts
InitAllBlocks == InitWith(SeedLists, BlockSizes)

\* a parent like App that also passes the timeSpent of each task as a prop
\* (the documented task shape, with timeSpent: 2.5 for a two-hour entry)
SeedOverride == [id |-> 1, startDate |-> 570, endDate |-> 690, timeSpent |-> 250]
OverrideSeedLists == {<<SeedOverride, SeedB>>}
InitAllProps ==
  /\ InitParent(OverrideSeedLists, AppBlockSizes, FeatureSets, TRUE)
  /\ configStartTime = TimeOf(0, 9 * 60 + 30)
  /\ configEndTime = TimeOf(0, 19 * 60 + 30)
  /\ resolvedTimeline = resolvedTimelineOf(configStartTime, configEndTime, blockMinutes)
  /\ layoutEntries = << >>
  /\ dayLayout = buildDayLayout(layoutEntries, blockMinutes)

\* App with readOnly or with one gesture switched off by its feature flag
InitGestureFlags ==
  /\ InitParent(SeedLists, AppBlockSizes, GestureFlagSets, FALSE)
  /\ configStartTime = TimeOf(0, 9 * 60 + 30)
  /\ configEndTime = TimeOf(0, 19 * 60 + 30)
  /\ resolvedTimeline = resolvedTimelineOf(configStartTime, configEndTime, blockMinutes)
  /\ layoutEntries = << >>
  /\ dayLayout = buildDayLayout(layoutEntries, blockMinutes)

\* ----------------------------------------------------------------- events
ResizeListeners == {l \in windowListeners : l.kind = "resize"}
CreateListeners == {l \in windowListeners : l.kind = "create"}

\* pointer-down on the top or bottom resize handle of a card of the grid
StartResizeUpTo(cap) ==
  /\ currentView # "month"
  /\ canResize
  /\ mutations < cap
  /\ resizeSessionRef # Null => resizeChain < MaxResizeChain
  /\ \E card \in RenderedCards(Cur), edge \in ResizeEdges, button \in Buttons :
       LET clientY == IF edge = "top" THEN card.rect.top ELSE card.rect.bottom
           begins == canResize /\ button = 0
       IN Fire("startResize",
               startResize([Cur EXCEPT
                              !.resizePointerY = IF begins THEN [y |-> clientY] ELSE @,
                              !.resizeChain =
                                 IF begins /\ resizeSessionRef # Null
                                 THEN @ + 1 ELSE @],
                           card.entry, edge, clientY, button))

StartResize == StartResizeUpTo(MaxMutations)

\* pointermove on the window while a resize listener is attached
ResizePointerMove ==
  \E l \in ResizeListeners, dy \in ResizeDeltas :
    LET clientY == (IF resizeSessionRef # Null
                    THEN resizeSessionRef.pointerStartY ELSE 0) + dy
    IN Fire("pointermove",
            resizeOnMove([Cur EXCEPT !.resizePointerY = [y |-> clientY]], l, clientY))

\* pointerup or pointercancel on the window
ResizePointerUp ==
  \E type \in {"pointerup", "pointercancel"} :
    IF ResizeListeners # {}
    THEN \E l \in ResizeListeners : Fire(type, resizeOnUp(Cur, l))
    ELSE Fire(type, Cur)

\* mousedown on a day column of the grid
StartCreate ==
  /\ currentView # "month"
  /\ mutations < MaxMutations
  /\ \E d \in 0..(NumDays - 1), k \in SampleSlots, button \in Buttons,
        onEntry \in BOOLEAN :
       Fire("mousedown",
            startCreateSelection(Cur, dayDate(d), k * SLOT_HEIGHT + 10,
                                 button, onEntry))

\* mousemove on the window while a create listener is attached
CreateMouseMove ==
  /\ CreateListeners # {}
  /\ \E y \in PointerYs : Fire("mousemove", createOnMove(Cur, y))

\* mouseup on the window
CreateMouseUp ==
  IF CreateListeners # {} THEN Fire("mouseup", createOnUp(Cur))
  ELSE Fire("mouseup", Cur)

\* the drag library activates a drag of an enabled card
DragStartUpTo(cap) ==
  /\ dndActive = Null
  /\ canDrag
  /\ resizeDraft = Null
  /\ mutations < cap
  /\ \E card \in RenderedCards(Cur) :
          LET startX == card.rect.left + ColWidth \div 2 - 3
              startY == card.rect.top + Min(GrabOffset, card.rect.height - 1)
          IN Fire("dragstart",
                  onDndDragStart(
                    [Cur EXCEPT !.dndActive =
                       [id |-> card.entry.id, start |-> [x |-> startX, y |-> startY]]],
                    card.entry.id, card.rect, startX, startY))

DragStart == DragStartUpTo(MaxMutations)

\* the drag library reports the pointer at a sampled position
DragMove ==
  /\ dndActive # Null
  /\ \E x \in PointerXs, y \in PointerYs :
       Fire("dragmove",
            onDndDragMove(Cur, x - dndActive.start.x, y - dndActive.start.y))

DragEnd ==
  /\ dndActive # Null
  /\ Fire("dragend", onDndDragEnd([Cur EXCEPT !.dndActive = Null]))

DragCancel ==
  /\ dndActive # Null
  /\ Fire("dragcancel", onDndDragCancel([Cur EXCEPT !.dndActive = Null]))

\* click on Delete in the menu of a card
Delete ==
  /\ canDelete
  /\ deletes < MaxDeletes
  /\ \E card \in RenderedCards(Cur) :
       Fire("delete", deleteAppointment(Cur, card.entry.id))

\* the view selector changes the view
ViewChange ==
  \E view \in Views \ {currentView} :
    Fire("viewchange", applyViewChange(Cur, view))

\* the browser runs a pending animation frame callback
AnimationFrame ==
  \E frame \in animationFrames :
    Fire("frame",
         settleFrameCallback([Cur EXCEPT !.animationFrames = @ \ {frame}],
                             frame.id))

\* the browser runs a pending timeout callback
Timeout ==
  \E id \in timeouts :
    Fire("timeout",
         settleTimeoutCallback([Cur EXCEPT !.timeouts = @ \ {id}]))

\* the mouse enters or leaves a card
EntryMouse ==
  \E card \in RenderedCards(Cur), enter \in BOOLEAN :
    IF enter
    THEN Fire("mouseenter", onEntryMouseEnter(Cur, card.entry.id))
    ELSE Fire("mouseleave", onEntryMouseLeave(Cur, card.entry.id))

\* the mouse moves over a day column of the grid (over empty space or over a
\* card) or leaves it
DayMouse ==
  /\ currentView # "month"
  /\ \/ \E d \in DayIndexes, onEntry \in BOOLEAN :
          Fire("daymousemove",
               onDayMouseMove(Cur, dayDate(d), HoverY, onEntry))
     \/ Fire("daymouseleave", onDayMouseLeave(Cur))

\* the parent removes the Scheduler: its cleanup runs and no event follows
Unmount ==
  /\ mounted
  /\ Apply("unmount", unmount(Cur))
  /\ mounted' = FALSE

Next ==
  \/ StartResize
  \/ ResizePointerMove
  \/ ResizePointerUp
  \/ StartCreate
  \/ CreateMouseMove
  \/ CreateMouseUp
  \/ DragStart
  \/ DragMove
  \/ DragEnd
  \/ DragCancel
  \/ Delete
  \/ ViewChange
  \/ AnimationFrame
  \/ Timeout
  \/ EntryMouse
  \/ DayMouse
  \/ Unmount

Spec == Init /\ [][Next]_vars
SpecShortSeed == InitShortSeed /\ [][Next]_vars
SpecAllBlocks == InitAllBlocks /\ [][Next]_vars
SpecAllProps == InitAllProps /\ [][Next]_vars
SpecGestureFlags == InitGestureFlags /\ [][Next]_vars

\* --------------------------------------- two mutations in quick succession
\* one entry, every gesture enabled, the week view; moves and resizes only
MaxSettleMutations == 2
InitSettle ==
  /\ InitWith({<<SeedA>>}, AppBlockSizes)
  /\ features = AllFeatures
  /\ currentView = "week"

StartResizeSettle == StartResizeUpTo(MaxSettleMutations)
DragStartSettle == DragStartUpTo(MaxSettleMutations)

NextSettle ==
  \/ StartResizeSettle
  \/ ResizePointerMove
  \/ ResizePointerUp
  \/ DragStartSettle
  \/ DragMove
  \/ DragEnd
  \/ DragCancel
  \/ AnimationFrame
  \/ Timeout

SpecSettle == InitSettle /\ [][NextSettle]_vars

\* two entries moved and resized, with every requested animation frame and
\* every timeout that is not cancelled run by the browser in the end
InitSettleFair ==
  /\ InitWith(SeedLists, AppBlockSizes)
  /\ features = AllFeatures
  /\ currentView = "week"
SpecSettleFair ==
  /\ InitSettleFair /\ [][NextSettle]_vars
  /\ WF_vars(AnimationFrame) /\ WF_vars(Timeout)

\* one entry resized while React defers the updaters of setResizeDraft: a
\* pointerdown is rendered before the next event, pointermove updates wait
\* for a render that any later event can precede
MaxPendingUpdates == 2
StartResizeQueued ==
  /\ draftUpdates = << >>
  /\ StartResizeUpTo(MaxSettleMutations)

ResizePointerMoveQueued ==
  /\ mounted
  /\ Len(draftUpdates) < MaxPendingUpdates
  /\ \E l \in ResizeListeners, dy \in ResizeDeltas :
       LET clientY == resizeSessionRef.pointerStartY + dy
           r == resizeOnMoveQueued([Cur EXCEPT !.resizePointerY = [y |-> clientY]],
                                   draftUpdates, l, clientY)
       IN /\ ApplyFields("pointermove", r.state)
          /\ draftUpdates' = r.queue
  /\ mounted' = mounted

RenderDraftUpdates ==
  /\ mounted
  /\ draftUpdates # << >>
  /\ ApplyFields("render", renderDraftUpdates(Cur, draftUpdates))
  /\ draftUpdates' = << >>
  /\ mounted' = mounted

ResizePointerUpQueued ==
  /\ mounted
  /\ \E type \in {"pointerup", "pointercancel"}, l \in ResizeListeners :
       LET r == resizeOnUpQueued(Cur, draftUpdates, l)
       IN /\ ApplyFields(type, r.state)
          /\ draftUpdates' = r.queue
  /\ mounted' = mounted

NextDeferred ==
  \/ StartResizeQueued
  \/ ResizePointerMoveQueued
  \/ RenderDraftUpdates
  \/ ResizePointerUpQueued
SpecDeferred == InitSettle /\ [][NextDeferred]_vars

\* ------------------------------------------ the timeline of a config prop
\* the start is supplied on the reference day; the end on that day, the day
\* before or the day after
ConfigMinutes == {0, 7, 600, 605, 610, 660, 1425, 1430, 1439}
ConfigStartTimes ==
  {UndefinedTime, InvalidTime} \cup {TimeOf(0, m) : m \in ConfigMinutes}
ConfigEndTimes ==
  {UndefinedTime, InvalidTime}
    \cup {TimeOf(d, m) : d \in {-1, 0, 1}, m \in ConfigMinutes}

InitTimeline ==
  /\ InitComponent(SeedLists, BlockSizes)
  /\ features = ReadOnly
  /\ currentView = "week"
  /\ configStartTime \in ConfigStartTimes
  /\ configEndTime \in ConfigEndTimes
  /\ resolvedTimeline = resolvedTimelineOf(configStartTime, configEndTime, blockMinutes)
  /\ layoutEntries = << >>
  /\ dayLayout = buildDayLayout(layoutEntries, blockMinutes)

\* the Date of an offset of the reference day (new Date(NaN) is invalid)
TimeOfOffset(offset) == TimeOf(offset \div 1440, offset % 1440)

\* the parent renders the Scheduler with another config; the memo recomputes
ConfigChange ==
  \E startTime \in ConfigStartTimes, endTime \in ConfigEndTimes,
     block \in BlockSizes :
    /\ configStartTime' = startTime
    /\ configEndTime' = endTime
    /\ blockMinutes' = block
    /\ resolvedTimeline' = resolvedTimelineOf(startTime, endTime, block)
    /\ UNCHANGED <<features, layoutEntries, dayLayout, childrenTimeSpent,
                   componentVars>>

\* the parent passes the resolved work window back as the next config
ConfigFeedBack ==
  LET startTime == TimeOfOffset(resolvedTimeline.workStartMinutes)
      endTime == IF resolvedTimeline.workEndIsNaN THEN InvalidTime
                 ELSE TimeOfOffset(resolvedTimeline.workEndMinutes)
  IN /\ configStartTime' = startTime
     /\ configEndTime' = endTime
     /\ resolvedTimeline' =
          resolvedTimelineOf(startTime, endTime, resolvedTimeline.blockMinutes)
     /\ UNCHANGED <<blockMinutes, features, layoutEntries, dayLayout,
                    childrenTimeSpent, componentVars>>

NextTimeline == ConfigChange \/ ConfigFeedBack
SpecTimeline == InitTimeline /\ [][NextTimeline]_vars

\* ------------------------------------------------- the lanes of one day
MaxLayoutEntries == 3
LayoutStarts == {600, 610, 630}
LayoutEnds == {600, 610, 615, 630, 645, 660}

InitLayout ==
  /\ InitComponent(SeedLists, BlockSizes)
  /\ features = ReadOnly
  /\ currentView = "week"
  /\ configStartTime = TimeOf(0, 9 * 60 + 30)
  /\ configEndTime = TimeOf(0, 19 * 60 + 30)
  /\ resolvedTimeline = resolvedTimelineOf(configStartTime, configEndTime, blockMinutes)
  /\ layoutEntries = << >>
  /\ dayLayout = buildDayLayout(layoutEntries, blockMinutes)

\* one more normalized entry among the entries of the day
LayoutEntryAdded ==
  /\ Len(layoutEntries) < MaxLayoutEntries
  /\ \E startDate \in LayoutStarts, endDate \in LayoutEnds :
       LET entry == normalizeTaskItem(
                      [id |-> Len(layoutEntries) + 1, startDate |-> startDate,
                       endDate |-> endDate], blockMinutes)
       IN /\ layoutEntries' = Append(layoutEntries, entry)
          /\ dayLayout' = buildDayLayout(layoutEntries', SLOT_MINUTES)
  /\ UNCHANGED <<blockMinutes, features, configStartTime, configEndTime,
                 resolvedTimeline, childrenTimeSpent, componentVars>>

LayoutEntryRemoved ==
  /\ layoutEntries # << >>
  /\ layoutEntries' = SubSeq(layoutEntries, 1, Len(layoutEntries) - 1)
  /\ dayLayout' = buildDayLayout(layoutEntries', SLOT_MINUTES)
  /\ UNCHANGED <<blockMinutes, features, configStartTime, configEndTime,
                 resolvedTimeline, childrenTimeSpent, componentVars>>

NextLayout == LayoutEntryAdded \/ LayoutEntryRemoved
SpecLayout == InitLayout /\ [][NextLayout]_vars


\* ---------------------------------------------------------------- properties
moveActive == draggingId # NoId
resizeActive == resizeSessionRef # Null
createActive == createDraft # Null
ActiveGestures ==
  {g \in {"move", "resize", "create"} :
     \/ g = "move" /\ moveActive
     \/ g = "resize" /\ resizeActive
     \/ g = "create" /\ createActive}

\* the start handlers applied to the current state with the primary button
ResizeStartOn(card, edge) ==
  startResize(Cur, card.entry, edge,
              IF edge = "top" THEN card.rect.top ELSE card.rect.bottom, 0)
DragStartOn(card) ==
  onDndDragStart(Cur, card.entry.id, card.rect,
                 card.rect.left + ColWidth \div 2 - 3,
                 card.rect.top + Min(GrabOffset, card.rect.height - 1))
CreateStartAt(d, k) ==
  startCreateSelection(Cur, dayDate(d), k * SLOT_HEIGHT + 10, 0, FALSE)

\* a handler result that invoked no callback and left the appointments alone
Silent(r) ==
  /\ r.emitted = << >>
  /\ r.tasks = tasks
  /\ r.internalAppointments = internalAppointments

Commits(log) == {i \in 1..Len(log) : log[i].op # "delete"}

\* C1: in every reachable state at most one of the three gestures is active:
\* at most one of (draggingId set, resize session set, create draft set) holds
C1_AtMostOneGesture == Cardinality(ActiveGestures) <= 1

\* a resize of one card was started over a drag of another card: the drag
\* library still tracks its pointer, the component holds the resize only
C1_Witness ==
  /\ resizeActive
  /\ dndActive # Null
  /\ dndActive.id # resizeSessionRef.id
  /\ ActiveGestures = {"resize"}

\* C2 as stated: for every ordered pair of gesture types, starting the second
\* gesture while the first is active cancels the first without a mutation and
\* makes the second the active gesture
C2_EveryStartPreempts ==
  /\ (moveActive /\ currentView # "month" /\ canResize) =>
       \A card \in RenderedCards(Cur), edge \in ResizeEdges :
         LET r == ResizeStartOn(card, edge)
         IN Silent(r) /\ r.draggingId = NoId /\ r.resizeSessionRef # Null
  /\ (createActive /\ currentView # "month" /\ canResize) =>
       \A card \in RenderedCards(Cur), edge \in ResizeEdges :
         LET r == ResizeStartOn(card, edge)
         IN Silent(r) /\ r.createDraft = Null /\ r.resizeSessionRef # Null
  /\ (createActive /\ canDrag) =>
       \A card \in RenderedCards(Cur) :
         LET r == DragStartOn(card)
         IN Silent(r) /\ r.createDraft = Null /\ r.draggingId = card.entry.id
  /\ (resizeActive /\ canDrag) =>
       \A card \in RenderedCards(Cur) :
         LET r == DragStartOn(card)
         IN Silent(r) /\ r.resizeSessionRef = Null /\ r.draggingId = card.entry.id
  /\ (moveActive /\ currentView # "month" /\ canCreate) =>
       \A d \in DayIndexes, k \in SampleSlots :
         LET r == CreateStartAt(d, k)
         IN Silent(r) /\ r.draggingId = NoId /\ r.createDraft # Null
  /\ (resizeActive /\ currentView # "month" /\ canCreate) =>
       \A d \in DayIndexes, k \in SampleSlots :
         LET r == CreateStartAt(d, k)
         IN Silent(r) /\ r.resizeSessionRef = Null /\ r.createDraft # Null

\* C2 (amended): a resize start cancels an active move or create, and a move
\* start cancels an active create, without a mutation, and the started gesture
\* becomes the active one; a move start during a resize and a create start
\* during a move or a resize are ignored: the state is left as it was and the
\* first gesture stays active
C2_PreemptOrIgnore ==
  /\ (moveActive /\ currentView # "month" /\ canResize) =>
       \A card \in RenderedCards(Cur), edge \in ResizeEdges :
         LET r == ResizeStartOn(card, edge)
         IN /\ Silent(r)
            /\ r.draggingId = NoId /\ r.dragPreview = Null
            /\ r.createDraft = Null
            /\ r.resizeSessionRef # Null
            /\ r.resizeSessionRef.id = card.entry.id
  /\ (createActive /\ currentView # "month" /\ canResize) =>
       \A card \in RenderedCards(Cur), edge \in ResizeEdges :
         LET r == ResizeStartOn(card, edge)
         IN /\ Silent(r)
            /\ r.createDraft = Null /\ r.createDraftRef = Null
            /\ r.createListenersRef = Null
            /\ r.draggingId = NoId
            /\ r.resizeSessionRef # Null
            /\ r.resizeSessionRef.id = card.entry.id
  /\ (createActive /\ canDrag) =>
       \A card \in RenderedCards(Cur) :
         LET r == DragStartOn(card)
         IN /\ Silent(r)
            /\ r.createDraft = Null /\ r.createDraftRef = Null
            /\ r.createListenersRef = Null
            /\ r.resizeSessionRef = Null
            /\ r.draggingId = card.entry.id
  /\ resizeActive =>
       \A card \in RenderedCards(Cur) : DragStartOn(card) = Cur
  /\ (moveActive \/ resizeActive) =>
       \A d \in DayIndexes, k \in SampleSlots : CreateStartAt(d, k) = Cur

\* a resize of the dragged card has taken over from its move (the drag
\* library still tracks the pointer) in the grid with create enabled, where
\* a mousedown on a column and a drag start are ignored
C2_Witness ==
  /\ resizeActive
  /\ dndActive # Null
  /\ dndActive.id = resizeSessionRef.id
  /\ currentView # "month"
  /\ canCreate /\ canDrag
  /\ ActiveGestures = {"resize"}

\* C3: starting a resize while a move is active clears the drag state and
\* makes the resize session active, and afterwards no drag-move, drag-end or
\* drag-cancel of the interrupted drag emits a move commit, whether the
\* resize is still active or already released
C3_ResizeInterruptsMove ==
  /\ (moveActive /\ currentView # "month" /\ canResize) =>
       \A card \in RenderedCards(Cur), edge \in ResizeEdges :
         LET r == ResizeStartOn(card, edge)
         IN /\ r.emitted = << >>
            /\ r.draggingId = NoId
            /\ r.dragPreview = Null
            /\ r.dragPointer = Null
            /\ r.dragStartPointerRef = Null
            /\ r.resizeSessionRef # Null
  /\ (dndActive # Null /\ ~moveActive) =>
       /\ Silent(onDndDragEnd(Cur))
       /\ Silent(onDndDragCancel(Cur))
       /\ \A x \in PointerXs, y \in PointerYs :
            Silent(onDndDragMove(Cur, x - dndActive.start.x, y - dndActive.start.y))
  /\ \A i \in 1..Len(emitted) :
       emitted[i].op = "move" => emitted[i].handler = "dragend"

\* the resize that interrupted a drag has been released with a commit while
\* the interrupted drag is still tracked by the drag library
C3_Witness ==
  /\ dndActive # Null
  /\ ~moveActive
  /\ ~resizeActive
  /\ deletes = 0
  /\ Len(emitted) = 1
  /\ emitted[1].op = "resize"

ReleaseHandlers(op) ==
  CASE op = "resize" -> {"pointerup", "pointercancel"}
    [] op = "create" -> {"mouseup"}
    [] op = "move" -> {"dragend"}
    [] OTHER -> {}

C5_MovesDoNotCommit ==
  /\ \A i \in 1..Len(emitted) :
       emitted[i].handler \notin {"pointermove", "mousemove", "dragmove"}
  /\ \A l \in ResizeListeners, dy \in ResizeDeltas :
       Silent(resizeOnMove(Cur, l,
                (IF resizeActive THEN resizeSessionRef.pointerStartY ELSE 0) + dy))
  /\ \A y \in PointerYs : Silent(createOnMove(Cur, y))
  /\ \A x \in PointerXs, y \in PointerYs :
       Silent(onDndDragMove(Cur,
                x - (IF dndActive # Null THEN dndActive.start.x ELSE 0),
                y - (IF dndActive # Null THEN dndActive.start.y ELSE 0)))

\* a create selection has been extended by a mousemove and not yet released
C5_Witness ==
  /\ createActive
  /\ createDraft.startSlot # createDraft.endSlot
  /\ emitted = << >>
  /\ tasks \in SeedLists

\* C6 as stated: every entry of every snapshot has end - start >= block size,
\* and every resize commit proposes a range with start + block size <= end
C6_EveryEntryAtLeastOneBlock ==
  /\ \A i \in 1..Len(tasks) :
       tasks[i].endDate - tasks[i].startDate >= blockMinutes
  /\ \A i \in 1..Len(emitted) :
       emitted[i].op = "resize" =>
         LET e == FindById(emitted[i].next, emitted[i].id)
         IN e # Null => e.startDate + blockMinutes <= e.endDate

\* the edge of an entry that a resize session does not drag
OppositeMinute(edge, e) ==
  IF edge = "top" THEN minutesOfDay(e.endDate) ELSE minutesOfDay(e.startDate)

\* C7 as stated: during a resize and in its commit, a top-edge resize leaves
\* the entry's end minute-of-day, and a bottom-edge resize its start
\* minute-of-day, as it is in the stored entry
C7_OppositeEdgeFixed ==
  resizeActive =>
    LET before == FindById(appointmentsOf(Cur), resizeSessionRef.id)
        edge == resizeSessionRef.edge
    IN before # Null =>
         /\ resizeDraft # Null =>
              OppositeMinute(edge, resizeDraft) = OppositeMinute(edge, before)
         /\ \A l \in ResizeListeners :
              LET r == resizeOnUp(Cur, l)
                  after == FindById(r.tasks, resizeSessionRef.id)
              IN (r.emitted # << >> /\ after # Null) =>
                   OppositeMinute(edge, after) = OppositeMinute(edge, before)

\* C8 as stated: a resize released with the pointer a net zero slots away from
\* where it went down emits no commit and leaves the appointments unchanged
C8_ZeroDisplacementNoCommit ==
  (/\ resizeActive
   /\ resizePointerY # Null
   /\ RoundDiv(resizePointerY.y - resizeSessionRef.pointerStartY, SLOT_HEIGHT) = 0) =>
    \A l \in ResizeListeners : Silent(resizeOnUp(Cur, l))

\* C9 as stated: a move commit leaves the moved entry's end - start as it was
\* before the gesture
C9_MoveKeepsDuration ==
  moveActive =>
    LET r == onDndDragEnd(Cur)
        before == FindById(appointmentsOf(Cur), draggingId)
        after == FindById(r.tasks, draggingId)
    IN (r.emitted # << >> /\ before # Null /\ after # Null) =>
         after.endDate - after.startDate = before.endDate - before.startDate

\* C10: a drag-move released while the last resolved drop zone is none (the
\* last move was outside every zone, or no move resolved a zone) ends with no
\* move commit, the appointments unchanged and the drag state cleared
C10_NoZoneNoCommit ==
  (moveActive /\ dragPreview = Null) =>
    LET r == onDndDragEnd(Cur)
    IN /\ Silent(r)
       /\ r.draggingId = NoId
       /\ r.dragPreview = Null
       /\ r.dragPointer = Null

\* the pointer of a drag was last reported above the grid, over no zone
C10_Witness ==
  /\ moveActive
  /\ dragPreview = Null
  /\ dragPointer # Null
  /\ dragPointer.y < 0

\* the dragged entry as the component sees it, and the slots it covers
draggingEntry == FindById(appointmentsOf(Cur), draggingId)
EntrySlots(e) == CeilDiv(e.endDate - e.startDate, blockMinutes)
WindowMinutes == MAX_DAY_MINUTES - MIN_DAY_MINUTES

\* C11: in the grid views a drag-move over slot k of a day column sets the
\* preview to that day and to slot clamp(k - anchorSlot, 0, slotCount -
\* entrySlots), entrySlots = ceil(duration / blockSize); the stored preview
\* slot is always in that range; and for an entry no longer than the day
\* window the drag-end commits a move whose start is windowStart + slot x
\* blockSize on the preview's day and whose end is no later than the end of
\* the day window
C11_PreviewSlotClamped ==
  (moveActive /\ draggingEntry # Null
     /\ draggingEntry.endDate - draggingEntry.startDate <= WindowMinutes) =>
    /\ (currentView # "month" /\ dragStartPointerRef # Null) =>
         \A d \in DayIndexes, k \in SampleSlots :
           LET r == onDndDragMove(Cur,
                      d * ColWidth + ColWidth \div 2 - dragStartPointerRef.x,
                      k * SLOT_HEIGHT + 10 - dragStartPointerRef.y)
           IN r.dragPreview =
                [mode |-> "grid", day |-> dayKey(dayDate(d)),
                 slot |-> clamp(k - dragAnchorSlotRef, 0,
                                SLOT_COUNT - EntrySlots(draggingEntry))]
    /\ (dragPreview # Null /\ dragPreview.mode = "grid") =>
         /\ dragPreview.slot >= 0
         /\ dragPreview.slot <= SLOT_COUNT - EntrySlots(draggingEntry)
         /\ LET r == onDndDragEnd(Cur)
                after == FindById(r.tasks, draggingId)
                day == parseDayKey(dragPreview.day)
            IN /\ Len(r.emitted) = 1
               /\ r.emitted[1].op = "move"
               /\ after # Null
               /\ after.startDate =
                    day + MIN_DAY_MINUTES + dragPreview.slot * blockMinutes
               /\ after.endDate <= day + MIN_DAY_MINUTES + SLOT_COUNT * blockMinutes

\* the first seed entry was dropped with the pointer on the last slot of a
\* column: the clamp put it on the last slots of the day window
C11_Witness ==
  /\ Len(emitted) = 1
  /\ emitted[1].op = "move"
  /\ emitted[1].id = SeedA.id
  /\ LET e == FindById(tasks, SeedA.id)
     IN /\ e # Null
        /\ e.endDate = startOfDay(e.startDate) + DAY_END_MINUTES
        /\ e.endDate - e.startDate = SeedA.endDate - SeedA.startDate

\* C12 as stated: a move committed while the view is month puts the entry's
\* start on the day of the drop preview with the minute of day of the
\* entry's start before the gesture
C12_MonthMoveKeepsTimeOfDay ==
  (moveActive /\ currentView = "month" /\ dragPreview # Null) =>
    LET r == onDndDragEnd(Cur)
        after == FindById(r.tasks, draggingId)
    IN (r.emitted # << >> /\ draggingEntry # Null /\ after # Null) =>
         /\ startOfDay(after.startDate) = parseDayKey(dragPreview.day)
         /\ minutesOfDay(after.startDate) = minutesOfDay(draggingEntry.startDate)

\* the drag state of a handler result is all cleared
DragDraftCleared(r) ==
  /\ r.draggingId = NoId
  /\ r.dragPreview = Null
  /\ r.dragOverlayWidth = Null
  /\ r.dragOverlayHeight = Null
  /\ r.dragPointer = Null
  /\ r.hoverSlot = Null
  /\ r.dragAnchorSlotRef = 0
  /\ r.dragAnchorPxRef = [x |-> 0, y |-> 0]
  /\ r.dragStartPointerRef = Null

\* C13 as stated: after the drag-end and after the drag-cancel handler of a
\* drag the library tracks, draggingId, dragPreview, the overlay size, the
\* drag pointer, the hover slot and the hovered entry are null and the anchor
\* offsets and the start pointer are reset
C13_DragEndClearsAll ==
  dndActive # Null =>
    /\ DragDraftCleared(onDndDragEnd(Cur))
    /\ onDndDragEnd(Cur).hoveredEntryId = NoId
    /\ DragDraftCleared(onDndDragCancel(Cur))
    /\ onDndDragCancel(Cur).hoveredEntryId = NoId

\* C13 (amended): after the drag-end and after the drag-cancel handler of a
\* drag the library tracks, draggingId, dragPreview, the overlay size, the
\* drag pointer and the hover slot are null and the anchor offsets and the
\* start pointer are reset; the hovered entry is null as well unless a resize
\* session is active, when the handler returns at once and changes nothing
C13_DragEndClearsDraft ==
  dndActive # Null =>
    /\ DragDraftCleared(onDndDragEnd(Cur))
    /\ DragDraftCleared(onDndDragCancel(Cur))
    /\ ~resizeActive =>
         /\ onDndDragEnd(Cur).hoveredEntryId = NoId
         /\ onDndDragCancel(Cur).hoveredEntryId = NoId
    /\ resizeActive =>
         /\ onDndDragEnd(Cur) = Cur
         /\ onDndDragCancel(Cur) = Cur

\* a drag has just been released with a move commit and nothing of it is left
C13_Witness ==
  /\ Len(emitted) = 1
  /\ emitted[1].op = "move"
  /\ emitted[1].handler = "dragend"
  /\ dndActive = Null
  /\ DragDraftCleared(Cur)
  /\ hoveredEntryId = NoId

\* the creation request of a handler result (its draft and its context)
CreateRequest(r) == r.emitted[1].next
CreatedMinutes(r) ==
  CreateRequest(r).draft.endDate - CreateRequest(r).draft.startDate
ClickDraft == createDraftRef # Null /\ createDraftRef.startSlot = createDraftRef.endSlot

\* C14 as stated: a create released with anchor slot = end slot requests an
\* entry of 30 minutes, for each of the block sizes 15, 30 and 60
C14_ClickCreatesThirtyMinutes ==
  ClickDraft =>
    LET r == createOnUp(Cur)
    IN /\ Len(r.emitted) = 1
       /\ r.emitted[1].op = "create"
       /\ CreatedMinutes(r) = 30

\* C14 (amended): a create released with anchor slot = end slot requests an
\* entry of 30 minutes when the block size is 15 or 30 and of 60 minutes
\* (one block) when the block size is 60
C14_ClickCreatesDefault ==
  ClickDraft =>
    LET r == createOnUp(Cur)
    IN /\ Len(r.emitted) = 1
       /\ r.emitted[1].op = "create"
       /\ CreatedMinutes(r) = IF blockMinutes = 60 THEN 60 ELSE 30

\* a click has created a one-hour entry on a grid of 60-minute blocks
C14_Witness ==
  /\ blockMinutes = 60
  /\ Len(emitted) = 1
  /\ emitted[1].op = "create"
  /\ emitted[1].handler = "mouseup"
  /\ emitted[1].next.context.durationMinutes = 60
  /\ tasks[Len(tasks)].endDate - tasks[Len(tasks)].startDate = 60

\* the time of slot k of the day window of model day d
SlotTime(d, k) == dayDate(d) + MIN_DAY_MINUTES + k * blockMinutes
Idle == ActiveGestures = {}

\* C15 as stated: a mousedown on slot k of a column followed by a mouseup,
\* with no mousemove between them, requests an entry that starts at the time
\* of slot k, for every slot k of the column
C15_ClickStartsAtClickedSlot ==
  /\ (Idle /\ currentView # "month" /\ canCreate) =>
       \A d \in DayIndexes, k \in SampleSlots :
         LET r == createOnUp(CreateStartAt(d, k))
         IN /\ Len(r.emitted) = 1
            /\ CreateRequest(r).draft.startDate = SlotTime(d, k)
  /\ ClickDraft =>
       LET r == createOnUp(Cur)
       IN CreateRequest(r).draft.startDate =
            createDraftRef.dayDate + MIN_DAY_MINUTES
              + createDraftRef.startSlot * blockMinutes

\* the slots of a default-length entry, and the last slot a click can start at
DefaultSlots == IF blockMinutes = 15 THEN 2 ELSE 1
LastClickStart == SLOT_COUNT - DefaultSlots

\* C15 (amended): a mousedown on slot k followed by a mouseup, with no
\* mousemove between them, requests an entry that starts at the time of slot
\* min(k, slotCount - defaultSlots): at the clicked slot when the default
\* duration fits below it, and otherwise at the last slot where it fits
C15_ClickStartsAtClampedSlot ==
  /\ (Idle /\ currentView # "month" /\ canCreate) =>
       \A d \in DayIndexes, k \in SampleSlots :
         LET r == createOnUp(CreateStartAt(d, k))
         IN /\ Len(r.emitted) = 1
            /\ CreateRequest(r).draft.startDate =
                 SlotTime(d, Min(k, LastClickStart))
  /\ ClickDraft =>
       LET r == createOnUp(Cur)
       IN CreateRequest(r).draft.startDate =
            createDraftRef.dayDate + MIN_DAY_MINUTES
              + Min(createDraftRef.startSlot, LastClickStart) * blockMinutes

\* a default-length entry was created on the last two 15-minute slots
C15_Witness ==
  /\ blockMinutes = 15
  /\ Len(emitted) = 1
  /\ emitted[1].op = "create"
  /\ emitted[1].handler = "mouseup"
  /\ emitted[1].next.context.slot = SLOT_COUNT - 2
  /\ emitted[1].next.context.durationMinutes = 30

Abs(n) == IF n < 0 THEN -n ELSE n
\* the create draft with its anchor slot and its end slot exchanged
SwappedDraft ==
  [createDraftRef EXCEPT !.startSlot = createDraftRef.endSlot,
                         !.endSlot = createDraftRef.startSlot]

\* C16: a create released with anchor slot a and end slot e, a # e, requests
\* one entry of (|a - e| + 1) x blockSize minutes that starts at the time of
\* slot min(a, e) of the draft's day, and the request is the same when a and
\* e are exchanged
C16_SpanCreate ==
  (createDraftRef # Null /\ createDraftRef.startSlot # createDraftRef.endSlot) =>
    LET a == createDraftRef.startSlot
        e == createDraftRef.endSlot
        r == createOnUp(Cur)
        swapped == createOnUp([Cur EXCEPT !.createDraftRef = SwappedDraft])
    IN /\ Len(r.emitted) = 1
       /\ r.emitted[1].op = "create"
       /\ CreatedMinutes(r) = (Abs(a - e) + 1) * blockMinutes
       /\ CreateRequest(r).draft.startDate =
            createDraftRef.dayDate + MIN_DAY_MINUTES
              + (IF a < e THEN a ELSE e) * blockMinutes
       /\ swapped.emitted = r.emitted
       /\ swapped.tasks = r.tasks

\* a selection from the last slot up to slot 1, or from slot 1 down to the
\* last slot, has been committed
C16_Witness ==
  /\ Len(emitted) = 1
  /\ emitted[1].op = "create"
  /\ emitted[1].handler = "mouseup"
  /\ emitted[1].next.context.slot = 1
  /\ emitted[1].next.context.durationMinutes = (SLOT_COUNT - 1) * blockMinutes

\* a creation request of whole blocks, at least one, that starts on a block
\* boundary of its day and ends inside the day window
WellFormedRequest(req) ==
  LET minutes == req.draft.endDate - req.draft.startDate
  IN /\ minutes >= blockMinutes
     /\ minutes % blockMinutes = 0
     /\ req.context.durationMinutes = minutes
     /\ req.context.slot >= 0
     /\ req.context.slot + minutes \div blockMinutes <= SLOT_COUNT
     /\ req.draft.startDate =
          req.context.day + MIN_DAY_MINUTES + req.context.slot * blockMinutes
     /\ req.draft.endDate <= req.context.day + MAX_DAY_MINUTES

\* durations handed to addTaskAtSlot, whole blocks or not, up to the window
RequestedMinutes == {1, 7, 8, 22, 23, 30, 50, WindowMinutes}

\* C17: every creation request is for a positive whole number of blocks and
\* has its start slot clamped so that start slot + duration slots <=
\* slotCount: the requests emitted so far, the request a mouseup would emit
\* for the current draft, and the request addTaskAtSlot emits for any slot of
\* the column and any duration up to the day window
C17_CreateRequestWellFormed ==
  /\ \A i \in 1..Len(emitted) :
       emitted[i].op = "create" => WellFormedRequest(emitted[i].next)
  /\ createDraftRef # Null =>
       LET r == createOnUp(Cur)
       IN Len(r.emitted) = 1 /\ WellFormedRequest(CreateRequest(r))
  /\ canCreate =>
       \A d \in DayIndexes, k \in SampleSlots \cup {0}, minutes \in RequestedMinutes :
         LET r == addTaskAtSlot(Cur, dayDate(d), k, minutes)
         IN Len(r.emitted) = 1 /\ WellFormedRequest(CreateRequest(r))

\* an entry of one 30-minute block was created on the last slot of a day
C17_Witness ==
  /\ blockMinutes = 30
  /\ Len(emitted) = 1
  /\ emitted[1].op = "create"
  /\ emitted[1].next.context.slot = SLOT_COUNT - 1
  /\ emitted[1].next.draft.endDate = emitted[1].next.context.day + MAX_DAY_MINUTES

\* a create draft of the given day with both slots inside the column
DraftOnDay(draft, day) ==
  /\ draft.day = dayKey(day)
  /\ draft.dayDate = startOfDay(day)
  /\ draft.startSlot \in 0..(SLOT_COUNT - 1)
  /\ draft.endSlot \in 0..(SLOT_COUNT - 1)

\* y of a mouse far above, just above, inside, just below and far below a column
CreatePointerYs ==
  {-FarPx, -1, 0, SLOT_HEIGHT + 10, GridHeight - 1, GridHeight, 2 * FarPx}

\* C18: a create draft has its anchor slot and its end slot in [0, slotCount
\* - 1] and is on the day of the column of the mousedown; a mousemove at any
\* height, over any column or outside the grid (the handler does not read
\* the pointer's x), leaves the draft's day and anchor slot as they are and
\* puts the end slot in [0, slotCount - 1]
C18_DraftStaysOnItsDay ==
  /\ createDraft # Null =>
       /\ createDraft = createDraftRef
       /\ DraftOnDay(createDraft, createDraft.dayDate)
       /\ \A y \in CreatePointerYs \cup PointerYs :
            LET r == createOnMove(Cur, y)
            IN /\ r.createDraft # Null
               /\ r.createDraftRef = r.createDraft
               /\ DraftOnDay(r.createDraft, createDraft.dayDate)
               /\ r.createDraft.startSlot = createDraft.startSlot
  /\ (Idle /\ currentView # "month" /\ canCreate) =>
       \A d \in DayIndexes, k \in SampleSlots, y \in CreatePointerYs :
         LET down == CreateStartAt(d, k)
             r == createOnMove(down, y)
         IN /\ DraftOnDay(down.createDraft, dayDate(d))
            /\ down.createDraft.startSlot = k
            /\ DraftOnDay(r.createDraft, dayDate(d))
            /\ r.createDraft.startSlot = k

\* a selection started on the last slot of the second column was dragged
\* above the grid: its end slot is the first slot of the same column
C18_Witness ==
  /\ createDraft # Null
  /\ createDraft.dayDate = dayDate(1)
  /\ createDraft.startSlot = SLOT_COUNT - 1
  /\ createDraft.endSlot = 0

\* C19 as stated: while the view is month no creation request and no resize
\* commit is emitted: none by the last event, and none by a mouseup, a
\* pointerup or a pointercancel arriving now
C19_NoCreateOrResizeInMonth ==
  currentView = "month" =>
    /\ \A i \in 1..Len(emitted) : emitted[i].op \notin {"create", "resize"}
    /\ createOnUp(Cur).emitted = << >>
    /\ \A l \in ResizeListeners : resizeOnUp(Cur, l).emitted = << >>

\* the window listeners of one kind that a handler result leaves attached
ListenersOf(r, kind) == {l \in r.windowListeners : l.kind = kind}
\* a handler result with no resize listener attached and the cursor restored
ResizeTornDown(r) == ListenersOf(r, "resize") = {} /\ ~r.bodyCursor

\* C20: resize listeners are attached, and the resize cursor is on, only
\* while a resize session is active, and create listeners are attached only
\* while a create draft is active; the listeners attached are the ones the
\* refs hold; and from a state with a resize session, the release and the
\* cancel handler, the deletion of the resized entry and the unmount cleanup
\* leave no resize listener and no cursor override, and a new resize leaves
\* only its own listener attached
C20_ListenersOnlyWhileActive ==
  /\ ResizeListeners # {} => resizeActive /\ mounted
  /\ bodyCursor => resizeActive /\ mounted
  /\ CreateListeners # {} => createDraftRef # Null /\ createActive /\ mounted
  /\ ResizeListeners \subseteq {resizeListenersRef}
  /\ CreateListeners \subseteq {createListenersRef}
  /\ windowListeners = ResizeListeners \cup CreateListeners
  /\ ResizeTornDown(unmount(Cur))
  /\ unmount(Cur).windowListeners = {}
  /\ resizeActive =>
       /\ \A l \in ResizeListeners :
            LET r == resizeOnUp(Cur, l)
            IN ResizeTornDown(r) /\ r.resizeSessionRef = Null
       /\ canDelete =>
            LET r == deleteAppointment(Cur, resizeSessionRef.id)
            IN r.emitted # << >> =>
                 ResizeTornDown(r) /\ r.resizeSessionRef = Null
       /\ (currentView # "month" /\ canResize) =>
            \A card \in RenderedCards(Cur), edge \in ResizeEdges :
              LET r == ResizeStartOn(card, edge)
              IN /\ ListenersOf(r, "resize") = {r.resizeListenersRef}
                 /\ r.resizeListenersRef.entryId = r.resizeSessionRef.id
                 /\ r.bodyCursor

\* the component was unmounted in the middle of a resize: the session was
\* never released, and no listener and no cursor override is left behind
C20_Witness ==
  /\ ~mounted
  /\ resizeSessionRef # Null
  /\ resizeDraftRef # Null
  /\ windowListeners = {}
  /\ ~bodyCursor

\* the resize and the create state of a handler result are idle
ResizeIdle(r) ==
  /\ r.resizeSessionRef = Null /\ r.resizeDraftRef = Null /\ r.resizeDraft = Null
  /\ r.resizeListenersRef = Null
  /\ ResizeTornDown(r)
CreateIdle(r) ==
  /\ r.createDraftRef = Null /\ r.createDraft = Null
  /\ r.createListenersRef = Null
  /\ ListenersOf(r, "create") = {}

\* C21: stopResizing (commit true or false) called with no resize session,
\* and stopCreateSelection called with no create draft, emit nothing and
\* change nothing; resetDragState called with no move active emits nothing,
\* leaves the drag state cleared and changes nothing when called again; a
\* pointerup, a mouseup, a drag-end or a drag-cancel arriving when its
\* gesture is not active commits nothing
C21_TeardownIdempotent ==
  /\ ~resizeActive =>
       \A commit \in BOOLEAN :
         LET r == stopResizing(Cur, RenderClosure(Cur), commit)
         IN Silent(r) /\ ResizeIdle(r) /\ r = Cur
  /\ createDraftRef = Null =>
       \A commit \in BOOLEAN :
         LET r == stopCreateSelection(Cur, commit)
         IN Silent(r) /\ CreateIdle(r) /\ r = Cur
  /\ ~moveActive =>
       LET r == resetDragState(Cur)
       IN /\ Silent(r)
          /\ DragDraftCleared(r) /\ r.hoveredEntryId = NoId
          /\ resetDragState(r) = r
  /\ ~resizeActive =>
       Silent(resizeOnUp(Cur, [kind |-> "resize", entryId |-> NoId,
                               closure |-> RenderClosure(Cur)]))
  /\ createDraftRef = Null => Silent(createOnUp(Cur))
  /\ ~moveActive => Silent(onDndDragEnd(Cur)) /\ Silent(onDndDragCancel(Cur))

\* the drag library still tracks a drag whose entry was deleted or taken
\* over by a resize, and a create selection is in progress: the drag-end
\* will reset the drag state with no move active
C21_Witness ==
  /\ dndActive # Null
  /\ ~moveActive
  /\ ~resizeActive
  /\ createActive
  /\ createDraft.startSlot # createDraft.endSlot

\* C22: every task item the parent passes is normalized to an appointment
\* that lasts at least one block
C22_DurationFloor ==
  \A i \in 1..Len(tasks) :
    LET a == normalizeTaskItem(TaskItemsOf(tasks)[i], blockMinutes)
    IN a.endDate - a.startDate >= blockMinutes

\* the offsets the normalization works on: the parsed start and end of the
\* config, or the default work hours where the config gives no valid Date
suppliedStart == toOffsetMinutes(configStartTime,
                                 referenceDay(configStartTime, configEndTime))
suppliedEnd == toOffsetMinutes(configEndTime,
                               referenceDay(configStartTime, configEndTime))
effectiveStart ==
  IF suppliedStart.kind = "number" THEN suppliedStart.n
  ELSE DEFAULT_WORK_START_MINUTES
effectiveEnd ==
  IF suppliedEnd.kind = "number" THEN suppliedEnd.n ELSE DEFAULT_WORK_END_MINUTES
\* the end offset is a number (it is NaN when an end Date is measured from
\* an invalid start Date)
NumericWindow == ~resolvedTimeline.workEndIsNaN

WindowCorrected ==
  \/ configStartTime.kind = "invalid"
  \/ configEndTime.kind = "invalid"
  \/ resolvedTimeline.workStartMinutes # effectiveStart
  \/ resolvedTimeline.workEndIsNaN
  \/ resolvedTimeline.workEndMinutes # effectiveEnd
\* the config gives a start and an end that need no correction
ValidAligned ==
  /\ suppliedStart.kind = "number" /\ suppliedEnd.kind = "number"
  /\ 0 <= suppliedStart.n /\ suppliedEnd.n <= 1440
  /\ suppliedEnd.n - suppliedStart.n >= 15
  /\ suppliedStart.n % blockMinutes = 0
  /\ suppliedEnd.n % blockMinutes = 0

\* C25: the normalization yields a timeline for every config; when the
\* resolved work window differs from the supplied one the warnings list is
\* not empty; when the supplied window is valid and block-aligned it is
\* returned as it is with no warning
C25_CorrectionsReported ==
  /\ resolvedTimeline = resolvedTimelineOf(configStartTime, configEndTime,
                                           blockMinutes)
  /\ WindowCorrected => resolvedTimeline.warnings # << >>
  /\ ValidAligned =>
       /\ resolvedTimeline.workStartMinutes = suppliedStart.n
       /\ ~resolvedTimeline.workEndIsNaN
       /\ resolvedTimeline.workEndMinutes = suppliedEnd.n
       /\ resolvedTimeline.warnings = << >>

\* an end on the next day and a start off the block boundary: the end was
\* clamped, the start snapped, and two warnings report it
C25_Witness ==
  /\ suppliedStart.kind = "number" /\ suppliedStart.n = 605
  /\ suppliedEnd.kind = "number" /\ suppliedEnd.n > 1440
  /\ resolvedTimeline.workStartMinutes = 600
  /\ resolvedTimeline.workEndMinutes = 1440
  /\ Len(resolvedTimeline.warnings) = 2

\* the [start, end) intervals of two entries share an instant
Overlap(a, b) == a.startDate < b.endDate /\ b.startDate < a.endDate
\* the number of entries whose [start, end) interval holds the instant
EntriesAt(entries, instant) ==
  Cardinality({i \in 1..Len(entries) :
                 entries[i].startDate <= instant /\ instant < entries[i].endDate})
\* the largest number of entries that overlap at one instant (it is reached
\* at the start of some entry)
MaxOverlap(entries) ==
  LET counts == {EntriesAt(entries, entries[i].startDate) : i \in 1..Len(entries)}
  IN CHOOSE n \in counts : \A k \in counts : k <= n

\* C26: the lanes of a day's entries: every entry id has a lane from 0 to
\* laneCount - 1, and two entries of the same lane never overlap
C26_LanesDisjoint ==
  /\ dayLayout = buildDayLayout(layoutEntries, blockMinutes)
  /\ \A i \in 1..Len(layoutEntries) :
       /\ layoutEntries[i].id \in DOMAIN dayLayout.laneById
       /\ dayLayout.laneById[layoutEntries[i].id] \in 0..(dayLayout.laneCount - 1)
  /\ \A i, j \in 1..Len(layoutEntries) :
       (/\ i # j
        /\ dayLayout.laneById[layoutEntries[i].id]
             = dayLayout.laneById[layoutEntries[j].id])
         => ~Overlap(layoutEntries[i], layoutEntries[j])

\* three entries in two lanes: two overlap, and a lane is used again
C26_Witness ==
  /\ Len(layoutEntries) = 3
  /\ dayLayout.laneCount = 2
  /\ \E i, j \in 1..3 : Overlap(layoutEntries[i], layoutEntries[j]) /\ i # j
  /\ \E i, j \in 1..3 :
       /\ i # j
       /\ dayLayout.laneById[layoutEntries[i].id]
            = dayLayout.laneById[layoutEntries[j].id]

\* C27: for a non-empty list of entries, laneCount is the largest number of
\* entries whose [start, end) intervals overlap at one instant
C27_LaneCountIsMaxOverlap ==
  layoutEntries # << >> => dayLayout.laneCount = MaxOverlap(layoutEntries)

\* points on the edges and corners of the zones, inside and outside them
ProbeXs ==
  {-1, 0, ColWidth \div 2, ColWidth, NumDays * ColWidth, NumDays * ColWidth + 1}
ProbeYs == {-1, 0, 10, ColWidth, ColWidth + 1, GridHeight, GridHeight + 1}
Inside(zone, x, y) ==
  /\ zone.rect.left <= x /\ x <= zone.rect.right
  /\ zone.rect.top <= y /\ y <= zone.rect.bottom
\* the zone found is the first of the registry that holds the point, and
\* none is found exactly when no zone holds it
FirstZoneFound(zones, x, y) ==
  LET hit == findZoneAtPoint(zones, x, y)
  IN /\ (hit = Null) <=> (\A i \in 1..Len(zones) : ~Inside(zones[i], x, y))
     /\ hit # Null =>
          \E i \in 1..Len(zones) :
            /\ hit = zones[i]
            /\ Inside(zones[i], x, y)
            /\ \A j \in 1..(i - 1) : ~Inside(zones[j], x, y)

\* C28: in every state, whatever was queried before, findZoneAtPoint gives
\* for each registry and each point the first registered zone whose
\* rectangle holds the point, edges included, and none exactly when no
\* rectangle holds it
C28_FirstZoneAtPoint ==
  \A x \in ProbeXs \cup PointerXs, y \in ProbeYs \cup PointerYs :
    /\ FirstZoneFound(gridDayRefs(Cur), x, y)
    /\ FirstZoneFound(monthDayRefs(Cur), x, y)

\* a move is in progress whose last query found a zone, and the point on
\* the edge shared by the first two columns is given to the first of them
C28_Witness ==
  /\ moveActive
  /\ dragPreview # Null
  /\ currentView = "week"
  /\ findZoneAtPoint(gridDayRefs(Cur), ColWidth, 0) = gridDayRefs(Cur)[1]
  /\ Inside(gridDayRefs(Cur)[2], ColWidth, 0)
  /\ findZoneAtPoint(gridDayRefs(Cur), ColWidth, -1) = Null

\* the timers of the settle highlight that the browser still holds
PendingHandles(s) == {f.handle : f \in s.animationFrames} \cup s.timeouts
\* a move or resize commit queued a fresh timer and nothing else is pending
FreshTimerOnly(r, id) ==
  /\ r.timeouts = {}
  /\ r.animationFrames = {[handle |-> r.settleRafRef, id |-> id]}
  /\ r.settleRafRef \notin PendingHandles(Cur)
  /\ r.settleEntryId = NoId
\* the handler result commits a move or a resize
MutationIn(r) == r.emitted # << >> /\ r.emitted[1].op \in {"move", "resize"}
CommittedId(r) == r.emitted[1].id

\* C29: at most one settle timer (animation frame or timeout) is pending,
\* it is the one the refs hold, and while the highlight is on the only
\* pending timer is the timeout that will clear it; a move or resize commit
\* made while a timer is pending cancels it and starts a fresh frame
C29_OneSettleTimer ==
  /\ Cardinality(animationFrames) + Cardinality(timeouts) <= 1
  /\ \A f \in animationFrames : f.handle = settleRafRef
  /\ \A h \in timeouts : h = settleTimeoutRef
  /\ settleEntryId # NoId =>
       animationFrames = {} /\ timeouts \subseteq {settleTimeoutRef}
  /\ LET r == onDndDragEnd(Cur)
     IN MutationIn(r) => FreshTimerOnly(r, CommittedId(r))
  /\ \A l \in ResizeListeners :
       LET r == resizeOnUp(Cur, l)
       IN MutationIn(r) => FreshTimerOnly(r, CommittedId(r))

\* a second mutation was committed while the timeout of the first was
\* pending: the new frame is pending, the timeout is cancelled, and the ref
\* still holds the cancelled timeout's handle
C29_Witness ==
  /\ mutations = 2
  /\ animationFrames # {}
  /\ timeouts = {}
  /\ settleTimeoutRef # NoId
  /\ settleEntryId = NoId

\* the pointer positions a move of each gesture is delivered with
ResizeYs ==
  IF resizeSessionRef = Null THEN {}
  ELSE {resizeSessionRef.pointerStartY + dy : dy \in ResizeDeltas \cup {0, 45}}
DragDeltas ==
  IF dndActive = Null THEN {}
  ELSE {[x |-> x - dndActive.start.x, y |-> y - dndActive.start.y] :
          x \in PointerXs, y \in PointerYs}

\* C30: for each gesture, a move handler applied at a position after a move
\* at any other position (or at the same one) leaves the state, and so the
\* draft, that the move at the last position alone leaves
C30_MovesPathIndependent ==
  /\ \A l \in ResizeListeners : \A y1, y2 \in ResizeYs :
       resizeOnMove(resizeOnMove(Cur, l, y1), l, y2) = resizeOnMove(Cur, l, y2)
  /\ \A y1, y2 \in PointerYs :
       createOnMove(createOnMove(Cur, y1), y2) = createOnMove(Cur, y2)
  /\ \A d1, d2 \in DragDeltas :
       onDndDragMove(onDndDragMove(Cur, d1.x, d1.y), d2.x, d2.y)
         = onDndDragMove(Cur, d2.x, d2.y)

\* a resize whose draft already left the range captured at the start, and
\* whose next move can change it again
C30_Witness ==
  /\ resizeActive
  /\ resizeDraft # Null
  /\ \/ resizeDraft.startDate
          # dayWithMinutes(resizeSessionRef.day, resizeSessionRef.startMinutes)
     \/ resizeDraft.endDate
          # dayWithMinutes(resizeSessionRef.day, resizeSessionRef.endMinutes)
  /\ \E l \in ResizeListeners, y \in ResizeYs :
       resizeOnMove(Cur, l, y).resizeDraft # resizeDraft

\* the range a resize session started from, in minutes from the start of
\* the day the entry starts on: the stored entry's range when the session
\* captured it, else (a session started on a card that showed the draft of
\* another resize) the minutes the session captured
BaselineStart == resizeSessionRef.startMinutes
BaselineEnd ==
  LET stored == FindById(appointmentsOf(Cur), resizeSessionRef.id)
  IN IF /\ stored # Null
        /\ stored.startDate = resizeSessionRef.day + resizeSessionRef.startMinutes
        /\ minutesOfDay(stored.endDate) = resizeSessionRef.endMinutes
     THEN stored.endDate - resizeSessionRef.day
     ELSE resizeSessionRef.endMinutes
ResizeDeltaMinutes ==
  RoundDiv(resizePointerY.y - resizeSessionRef.pointerStartY, SLOT_HEIGHT)
    * blockMinutes

\* C31 as stated: during a resize the draft is, for the top edge,
\* start = clamp(baselineStart + deltaMinutes, windowStart, baselineEnd -
\* blockSize) with the baseline end, and for the bottom edge,
\* end = clamp(baselineEnd + deltaMinutes, baselineStart + blockSize,
\* windowEnd) with the baseline start; both lie in the day window of the
\* day the entry starts on
C31_ResizeDraftFormula ==
  (resizeActive /\ resizeDraft # Null /\ resizePointerY # Null) =>
    LET day == resizeSessionRef.day
    IN /\ resizeSessionRef.edge = "top" =>
            /\ resizeDraft.startDate
                 = day + clamp(BaselineStart + ResizeDeltaMinutes,
                               DAY_START_MINUTES, BaselineEnd - blockMinutes)
            /\ resizeDraft.endDate = day + BaselineEnd
       /\ resizeSessionRef.edge = "bottom" =>
            /\ resizeDraft.endDate
                 = day + clamp(BaselineEnd + ResizeDeltaMinutes,
                               BaselineStart + blockMinutes, DAY_END_MINUTES)
            /\ resizeDraft.startDate = day + BaselineStart
       /\ day + DAY_START_MINUTES <= resizeDraft.startDate
       /\ resizeDraft.startDate <= resizeDraft.endDate
       /\ resizeDraft.endDate <= day + DAY_END_MINUTES

\* C32: the layout of a list is a function of the list, and of two entries
\* with the same start the one earlier in the list has the lower lane
C32_TiesKeepInputOrder ==
  /\ dayLayout = buildDayLayout(layoutEntries, blockMinutes)
  /\ \A i, j \in 1..Len(layoutEntries) :
       (i < j /\ layoutEntries[i].startDate = layoutEntries[j].startDate) =>
         dayLayout.laneById[layoutEntries[i].id]
           < dayLayout.laneById[layoutEntries[j].id]

\* three entries with the same start fill lanes 0, 1 and 2 in list order
C32_Witness ==
  /\ Len(layoutEntries) = 3
  /\ layoutEntries[1].startDate = layoutEntries[2].startDate
  /\ layoutEntries[2].startDate = layoutEntries[3].startDate
  /\ dayLayout.laneCount = 3
  /\ dayLayout.laneById[layoutEntries[3].id] = 2

\* C33: the lane count is at least 1 for every list, and for no entries it
\* is 1 with no lane assigned
C33_LaneCountAtLeastOne ==
  /\ dayLayout.laneCount >= 1
  /\ layoutEntries = << >> =>
       dayLayout.laneCount = 1 /\ DOMAIN dayLayout.laneById = {}
  /\ buildDayLayout(<< >>, blockMinutes).laneCount = 1

\* the layout of a day without entries
C33_Witness ==
  /\ layoutEntries = << >>
  /\ dayLayout.laneCount = 1
  /\ DOMAIN dayLayout.laneById = {}

\* C34 as stated: the handler of a pointercancel received during a resize
\* commits nothing, whatever the draft is
C34_PointerCancelDiscards ==
  \A i \in 1..Len(emitted) : emitted[i].handler # "pointercancel"

\* C35 as stated: a move commit leaves every attribute of the moved entry
\* other than its start and end unchanged, an explicitly supplied timeSpent
\* that differs from the duration-derived value included
C35_MoveKeepsOtherAttributes ==
  moveActive =>
    LET r == onDndDragEnd(Cur)
        before == FindById(appointmentsOf(Cur), draggingId)
    IN (r.emitted # << >> /\ before # Null) =>
         LET after == FindById(r.emitted[1].next, draggingId)
         IN /\ after # Null
            /\ after.id = before.id
            /\ after.timeSpent = before.timeSpent

\* the snapshots that the release handlers of the gestures propose through
\* onTasksChange in the current state
ProposedSnapshots ==
  LET results == {resizeOnUp(Cur, l) : l \in ResizeListeners}
                   \cup {onDndDragEnd(Cur), createOnUp(Cur)}
  IN {r.emitted[i] : r \in {x \in results : x.emitted # << >>}, i \in {1}}

\* C36 as stated: a move or resize commit for entry X proposes a snapshot
\* with the number, order and ids of the entries of the previous snapshot, in
\* which every entry other than X is as in the previous snapshot; a create
\* is requested through onTaskCreate only
C36_CommitChangesOneEntry ==
  LET prev == appointmentsOf(Cur)
  IN \A e \in ProposedSnapshots :
       IF e.op = "create" THEN e.cb = "onTaskCreate"
       ELSE /\ e.cb = "onTasksChange"
            /\ Len(e.next) = Len(prev)
            /\ \A i \in 1..Len(prev) :
                 /\ e.next[i].id = prev[i].id
                 /\ prev[i].id # e.id => e.next[i] = prev[i]

\* the props that switch a gesture off
DragOff == features.readOnly \/ ~features.drag
ResizeOff == features.readOnly \/ ~features.resize
CreateOff == features.readOnly \/ ~features.create
NoneEmitted(op) == \A i \in 1..Len(emitted) : emitted[i].op # op

\* C37: while readOnly is true or the feature flag of a gesture is false,
\* that gesture is never active and never invokes onTasksChange or
\* onTaskCreate, and its start handler (startResize, drag-start,
\* startCreateSelection) applied on any card or slot with the primary button
\* changes nothing: gesture state, listeners and snapshot stay as they are
C37_DisabledGesturesStayIdle ==
  /\ ResizeOff =>
       /\ ResizeIdle(Cur)
       /\ NoneEmitted("resize")
       /\ \A card \in RenderedCards(Cur), edge \in ResizeEdges :
            ResizeStartOn(card, edge) = Cur
  /\ DragOff =>
       /\ draggingId = NoId /\ dragPreview = Null /\ dragPointer = Null
       /\ NoneEmitted("move")
       /\ \A card \in RenderedCards(Cur) : DragStartOn(card) = Cur
       /\ Silent(onDndDragEnd(Cur))
  /\ CreateOff =>
       /\ CreateIdle(Cur)
       /\ NoneEmitted("create")
       /\ \A d \in DayIndexes, k \in SampleSlots : CreateStartAt(d, k) = Cur

\* a drag is in progress over rendered cards while the resize flag is off
C37_Witness ==
  /\ ~features.readOnly /\ ~features.resize
  /\ moveActive
  /\ RenderedCards(Cur) # {}

\* the entry that the active resize or drag-move is on, if it is stored
GestureTargets ==
  {id \in {appointmentsOf(Cur)[i].id : i \in 1..Len(appointmentsOf(Cur))} :
     \/ resizeActive /\ resizeSessionRef.id = id
     \/ draggingId = id}

\* C38: deleting the entry that an active resize or drag-move is on ends the
\* gesture in the delete handler (session, drafts, cursor and listeners
\* cleared), which invokes onTaskDelete only; a release event delivered
\* afterwards (pointerup or pointercancel to the listeners the resize had
\* attached, or the drag-end of the drag library) commits no resize and no
\* move
C38_DeleteCancelsGesture ==
  canDelete =>
    \A id \in GestureTargets :
      LET r == deleteAppointment(Cur, id)
          after == [r EXCEPT !.emitted = << >>]
      IN /\ Len(r.emitted) = 1
         /\ r.emitted[1].op = "delete" /\ r.emitted[1].id = id
         /\ FindById(r.tasks, id) = Null
         /\ ResizeIdle(r)
         /\ r.draggingId = NoId /\ r.dragPreview = Null /\ r.dragPointer = Null
         /\ \A l \in ResizeListeners : resizeOnUp(after, l).emitted = << >>
         /\ onDndDragEnd(after).emitted = << >>

\* a resize whose release would commit, or a drag-move over a drop zone, on
\* an entry that can be deleted
C38_Witness ==
  /\ canDelete
  /\ deletes < MaxDeletes
  /\ \E id \in GestureTargets :
       \/ \E l \in ResizeListeners : MutationIn(resizeOnUp(Cur, l))
       \/ MutationIn(onDndDragEnd(Cur))

\* the draft computed by the last pointermove handled in the resize: the
\* newest pending update, or the rendered draft when none is pending
LastMoveDraft ==
  IF draftUpdates # << >> THEN draftUpdates[Len(draftUpdates)].next
  ELSE resizeDraft

\* C39 as stated: whatever updaters are still pending, a release commits the
\* range computed by the last pointermove handled before it (and commits
\* nothing when that range is the one the session started from)
C39_CommitIsLastMove ==
  (resizeActive /\ LastMoveDraft # Null) =>
    \A l \in ResizeListeners :
      LET r == resizeOnUp(Cur, l)
          last == LastMoveDraft
          changed == \/ minutesOfDay(last.startDate) # resizeSessionRef.startMinutes
                     \/ minutesOfDay(last.endDate) # resizeSessionRef.endMinutes
      IN IF changed
         THEN /\ MutationIn(r)
              /\ LET entry == FindById(r.emitted[1].next, last.id)
                 IN /\ entry # Null
                    /\ entry.startDate = last.startDate
                    /\ entry.endDate = last.endDate
         ELSE r.emitted = << >>

\* C40: a highlight that is on names the entry of the last move or resize
\* commit; while the animation frame of a commit is pending, the highlight
\* eventually is on for the entry committed last; a highlight that is on
\* eventually goes off; and a highlight that is off with no animation frame
\* pending stays off in every step (a commit leaves it off and requests a
\* frame)
C40_SettleHighlight ==
  /\ [](settleEntryId # NoId => settleEntryId = lastMutatedId)
  /\ (animationFrames # {}) ~> (settleEntryId # NoId /\ settleEntryId = lastMutatedId)
  /\ (settleEntryId # NoId) ~> (settleEntryId = NoId)
  /\ [][(settleEntryId = NoId /\ animationFrames = {}) => settleEntryId' = NoId]_vars

\* the highlight of a second commit, made on another entry than the first
C40_Witness ==
  /\ mutations = 2
  /\ settleEntryId # NoId
  /\ \E i \in 1..Len(tasks) :
       tasks[i].id # settleEntryId /\ tasks[i] \notin {SeedA, SeedB}

====
